---- MODULE Spec2Model ----
(***************************************************************************)
(* Model of backend/app.py: the comparable-set refinement engine           *)
(* (perform_cma_analysis and its helpers).                                 *)
(*                                                                         *)
(* Conventions                                                             *)
(*  - Python's None is the empty tuple <<>>; a present value v is <<v>>.   *)
(*  - Window bounds computed by calculate_filter_bounds are kept as        *)
(*    integers in hundredths (value * (100 - tolerance)), so the percent   *)
(*    arithmetic stays exact; boundary options are whole units.            *)
(*  - Every awaited Playwright call is an adapter call whose outcome       *)
(*    (returns / raises) is chosen nondeterministically; the number of     *)
(*    adapter faults per run is capped by MaxFaults.                       *)
(***************************************************************************)
EXTENDS Integers, Sequences, FiniteSets, TLC

\* ------------------------------------------------------------------ bounds
MaxFaults == 2          \* adapter faults injected per run
MaxCards  == 2          \* comparable cards shown by the adapter
MaxComps  == 2          \* length of the comparable list given to the benchmark step

\* ------------------------------------------------------- program constants
start_tolerance_percent == 20
tolerance_step_percent  == 5
min_tolerance_percent   == 5
target_min_comps        == 5
target_max_comps        == 15
max_iterations          == 5

\* ------------------------------------------------------------ Python None
None == <<>>
Some(v) == <<v>>
IsNone(x) == x = <<>>
Val(x) == x[1]

SetMin(S) == CHOOSE x \in S : \A y \in S : x <= y
SetMax(S) == CHOOSE x \in S : \A y \in S : x >= y

\* ------------------------------------------------------ helper functions
\* calculate_filter_bounds for a numeric subject value (the run always passes
\* the integer a parser returned).  Result: <<lower, upper>>, in hundredths.
FloorHundredths(x) == (x \div 100) * 100
CeilHundredths(x)  == ((x + 99) \div 100) * 100

calculate_filter_bounds_zero_passes(subject_value, tolerance_percent, is_integer) ==
    IF subject_value < 0
    THEN <<None, None>>
    ELSE <<Some(subject_value * (100 - tolerance_percent)),
           Some(subject_value * (100 + tolerance_percent))>>

calculate_filter_bounds_fixed_width(subject_value, tolerance_percent, is_integer) ==
    IF subject_value <= 0
    THEN <<None, None>>
    ELSE <<Some(subject_value * 80), Some(subject_value * 120)>>

calculate_filter_bounds_rounds_inward(subject_value, tolerance_percent, is_integer) ==
    IF subject_value <= 0
    THEN <<None, None>>
    ELSE LET lower_bound == subject_value * (100 - tolerance_percent)
             upper_bound == subject_value * (100 + tolerance_percent)
         IN  IF is_integer
             THEN <<Some(CeilHundredths(lower_bound)), Some(FloorHundredths(upper_bound))>>
             ELSE <<Some(lower_bound), Some(upper_bound)>>

calculate_filter_bounds(subject_value, tolerance_percent, is_integer) ==
    IF subject_value <= 0
    THEN <<None, None>>
    ELSE LET lower_bound == subject_value * (100 - tolerance_percent)
             upper_bound == subject_value * (100 + tolerance_percent)
         IN  IF is_integer
             THEN <<Some(FloorHundredths(lower_bound)), Some(CeilHundredths(upper_bound))>>
             ELSE <<Some(lower_bound), Some(upper_bound)>>

find_closest_boundary_option_no_sentinel(bound_value, boundary_options, is_upper_bound) ==
    IF boundary_options = <<>>
    THEN None
    ELSE LET above == {i \in 1..Len(boundary_options) :
                           boundary_options[i] * 100 >= bound_value}
             below == {i \in 1..Len(boundary_options) :
                           boundary_options[i] * 100 <= bound_value}
         IN  IF is_upper_bound
             THEN IF above # {} THEN Some(boundary_options[SetMin(above)])
                  ELSE Some(boundary_options[Len(boundary_options)])
             ELSE IF below # {} THEN Some(boundary_options[SetMax(below)])
                  ELSE Some(boundary_options[1])

find_closest_boundary_option_nearest_below(bound_value, boundary_options, is_upper_bound) ==
    IF boundary_options = <<>>
    THEN None
    ELSE LET below == {i \in 1..Len(boundary_options) :
                           boundary_options[i] * 100 <= bound_value}
         IN  IF below # {} THEN Some(boundary_options[SetMax(below)])
             ELSE IF is_upper_bound THEN Some(boundary_options[Len(boundary_options)])
             ELSE Some(-1)

find_closest_boundary_option_swapped(bound_value, boundary_options, is_upper_bound) ==
    IF boundary_options = <<>>
    THEN None
    ELSE LET above == {i \in 1..Len(boundary_options) :
                           boundary_options[i] * 100 >= bound_value}
             below == {i \in 1..Len(boundary_options) :
                           boundary_options[i] * 100 <= bound_value}
         IN  IF ~is_upper_bound
             THEN IF above # {} THEN Some(boundary_options[SetMin(above)])
                  ELSE Some(boundary_options[Len(boundary_options)])
             ELSE IF below # {} THEN Some(boundary_options[SetMax(below)])
                  ELSE Some(-1)

find_closest_boundary_option_wraps(bound_value, boundary_options, is_upper_bound) ==
    IF boundary_options = <<>>
    THEN None
    ELSE LET above == {i \in 1..Len(boundary_options) :
                           boundary_options[i] * 100 >= bound_value}
             below == {i \in 1..Len(boundary_options) :
                           boundary_options[i] * 100 <= bound_value}
         IN  IF is_upper_bound
             THEN IF above # {} THEN Some(boundary_options[SetMin(above)])
                  ELSE Some(boundary_options[1])
             ELSE IF below # {} THEN Some(boundary_options[SetMax(below)])
                  ELSE Some(-1)

\* find_closest_boundary_option; bound_value in hundredths, options in units.
find_closest_boundary_option(bound_value, boundary_options, is_upper_bound) ==
    IF boundary_options = <<>>
    THEN None
    ELSE IF is_upper_bound
         THEN LET hit == {i \in 1..Len(boundary_options) :
                              boundary_options[i] * 100 >= bound_value}
              IN  IF hit # {}
                  THEN Some(boundary_options[SetMin(hit)])
                  ELSE Some(boundary_options[Len(boundary_options)])
         ELSE LET hit == {i \in 1..Len(boundary_options) :
                              boundary_options[i] * 100 <= bound_value}
              IN  IF hit # {}
                  THEN Some(boundary_options[SetMax(hit)])
                  ELSE Some(-1)

floor_area_options == <<50, 75, 100, 125, 150, 175, 200, 250, 300, 400, 500>>
bedroom_options    == <<1, 2, 3, 4, 5, 6, 7, 8, 9, 10>>
bathroom_options   == <<1, 2, 3, 4, 5, 6, 7, 8, 9, 10>>
year_built_options == <<1900, 1910, 1920, 1930, 1940, 1950, 1960, 1970, 1980,
                        1990, 2000, 2010, 2020>>
land_area_options  == <<50, 75, 100, 150, 200, 300, 400, 500, 750, 1000, 2000,
                        3000, 4000, 5000, 10000, 20000, 40000, 50000, 100000,
                        150000, 200000, 250000, 500000, 1000000, 1500000, 2000000>>

\* ------------------------------------------------------------------ state
VARIABLES
    pc,                         \* position inside perform_cma_analysis
    cma_data,                   \* the result record being built
    subject,                    \* parsed subject attributes (subject_* locals)
    initial_tolerance_percent,  \* the tolerance, mutated by the loop
    iteration_count,
    result_count,
    criteria,                   \* land/floor/bedroom/bathroom/year windows
    prev,                       \* prev_* : last option the run believes selected
    sel,                        \* option actually selected on the adapter side
    properties,                 \* records extracted from the comparable cards
    comparable_properties,      \* input list of the benchmark step
    ratios_sale_cv, rates_floor_per_sqm, rates_land_per_sqm,
    faults,                     \* adapter and stdin faults so far
    fault_log,                  \* what the last apply step saw fail
    counts_read,                \* count queries made in this run
    widened, narrowed,          \* tolerance steps taken
    call,                       \* arguments of a helper function applied on its own
    result,                     \* what that application returned
    runs,                       \* the locals of each of two interleaved runs
    task                        \* the state of the browser session around a run

vars == <<pc, cma_data, subject, initial_tolerance_percent, iteration_count,
          result_count, criteria, prev, sel, properties, comparable_properties,
          ratios_sale_cv, rates_floor_per_sqm, rates_land_per_sqm,
          faults, fault_log, counts_read, widened, narrowed, call, result, runs, task>>

Dropdowns == {"land_title", "floor_area_min", "floor_area_max",
              "bedrooms_min", "bedrooms_max", "bathrooms_min", "bathrooms_max",
              "year_built_min", "year_built_max", "land_area_min", "land_area_max"}

Status(kind, count, detail) == [kind |-> kind, count |-> count, detail |-> detail]

\* cma_data as constructed on entry.
InitCmaData ==
    [CMA_Status                                  |-> Status("Not Started", 0, ""),
     CMA_Comparable_Count                        |-> 0,
     CMA_Benchmark_1_Avg_Sale_CV_Ratio           |-> None,
     CMA_Benchmark_1_Estimated_Sale              |-> "N/A",
     CMA_Benchmark_2_Avg_Floor_PerSqm            |-> None,
     CMA_Benchmark_2_Estimated_Value_via_Floor   |-> "N/A",
     CMA_Benchmark_3_Avg_Land_PerSqm             |-> None,
     CMA_Benchmark_3_Estimated_Value_via_Land    |-> "N/A",
     CMA_Filter_Settings_Used                    |-> None,   \* the empty dict
     CMA_Iterations_Performed                    |-> 0,
     CMA_Comparable_Details                      |-> None,
     CMA_Benchmark_1_Valuation                   |-> None,
     CMA_Benchmark_2_Valuation                   |-> None,
     CMA_Benchmark_3_Valuation                   |-> None]

\* prev_* as assigned before the loop (the superscript two of the floor-area
\* label is written 2).
InitPrev ==
    [d \in Dropdowns |->
        CASE d = "land_title"     -> "All"
          [] d = "land_area_min"  -> "Any"
          [] d = "land_area_max"  -> "200ha+"
          [] d = "floor_area_min" -> "Any"
          [] d = "floor_area_max" -> "500m2+"
          [] d = "bedrooms_min"   -> "Any"
          [] d = "bedrooms_max"   -> "10+"
          [] d = "bathrooms_min"  -> "Any"
          [] d = "bathrooms_max"  -> "10+"
          [] d = "year_built_min" -> "1900"
          [] d = "year_built_max" -> "2020"]

NoCriteria ==
    [land_area_min |-> None, land_area_max |-> None,
     floor_area_min |-> None, floor_area_max |-> None,
     bedrooms_min |-> None, bedrooms_max |-> None,
     bathrooms_min |-> None, bathrooms_max |-> None,
     year_built_min |-> None, year_built_max |-> None]

\* Parsed subject attributes a run can be given (-1 is the parsers' unknown).
\* capital_value is the "Capital Value" text with $ and , removed: Some(n) for a
\* string of digits worth n, None for any other text (the missing key gives "").
Subjects ==
    { [land_title |-> "Freehold", land_area_sqm |-> 450, floor_area_sqm |-> 180,
       bedrooms |-> 4, bathrooms |-> 2, year_built |-> 1995, capital_value |-> Some(480000)],
      [land_title |-> "", land_area_sqm |-> -1, floor_area_sqm |-> -1,
       bedrooms |-> -1, bathrooms |-> -1, year_built |-> -1, capital_value |-> None],
      [land_title |-> "Cross Lease", land_area_sqm |-> 12340, floor_area_sqm |-> 95,
       bedrooms |-> 3, bathrooms |-> 1, year_built |-> 2015, capital_value |-> None],
      [land_title |-> "Unit Title", land_area_sqm |-> 800, floor_area_sqm |-> 600,
       bedrooms |-> 5, bathrooms |-> 3, year_built |-> 2022, capital_value |-> None] }

\* The locals of perform_cma_analysis before its first step.
NoRun ==
    /\ cma_data = InitCmaData
    /\ initial_tolerance_percent = start_tolerance_percent
    /\ iteration_count = 0
    /\ result_count = 0
    /\ criteria = NoCriteria
    /\ prev = InitPrev
    /\ sel = InitPrev
    /\ properties = <<>>
    /\ ratios_sale_cv = <<>>
    /\ rates_floor_per_sqm = <<>>
    /\ rates_land_per_sqm = <<>>
    /\ faults = 0
    /\ fault_log = {}
    /\ counts_read = 0
    /\ widened = 0
    /\ narrowed = 0

RunInit ==
    /\ subject \in Subjects
    /\ NoRun
    /\ call = None
    /\ result = None
    /\ runs = None
    /\ task = None

Init ==
    /\ pc = "navigate"
    /\ RunInit
    /\ comparable_properties = <<>>

CanFault == faults < MaxFaults

OnExceptionKeepsStatus(cma, e) == cma

\* except Exception as e: cma_data["CMA_Status"] = f"Failed: {e}"; return cma_data
OnException(cma, e) == [cma EXCEPT !.CMA_Status = Status("Failed", 0, e)]

Raise(e) ==
    /\ cma_data' = OnException(cma_data, e)
    /\ pc' = "done"

\* --- 1. Navigate to CMA section ---
NavigateToCMA ==
    /\ pc = "navigate"
    /\ \/ /\ pc' = "slider"
          /\ UNCHANGED <<cma_data, faults>>
       \/ /\ CanFault
          /\ faults' = faults + 1
          /\ \/ /\ cma_data' = [cma_data EXCEPT !.CMA_Status =
                                   Status("Failed", 0, "CMA button not found")]
                /\ pc' = "done"
             \/ Raise("navigate")
    /\ UNCHANGED <<subject, initial_tolerance_percent, iteration_count, result_count,
                   criteria, prev, sel, properties, comparable_properties,
                   ratios_sale_cv, rates_floor_per_sqm, rates_land_per_sqm,
                   fault_log, counts_read, widened, narrowed, call, result, runs, task>>

\* slider bounding box, mouse click, wait for the results column
ClickSlider ==
    /\ pc = "slider"
    /\ \/ /\ pc' = "expand"
          /\ UNCHANGED <<cma_data, faults>>
       \/ /\ CanFault
          /\ faults' = faults + 1
          /\ Raise("slider")
    /\ UNCHANGED <<subject, initial_tolerance_percent, iteration_count, result_count,
                   criteria, prev, sel, properties, comparable_properties,
                   ratios_sale_cv, rates_floor_per_sqm, rates_land_per_sqm,
                   fault_log, counts_read, widened, narrowed, call, result, runs, task>>

ClickExpand ==
    /\ pc = "expand"
    /\ \/ /\ pc' = "prepare"
          /\ UNCHANGED <<cma_data, faults>>
       \/ /\ CanFault
          /\ faults' = faults + 1
          /\ \/ /\ cma_data' = [cma_data EXCEPT !.CMA_Status =
                                   Status("Failed", 0, "Expand button not found")]
                /\ pc' = "done"
             \/ Raise("expand")
    /\ UNCHANGED <<subject, initial_tolerance_percent, iteration_count, result_count,
                   criteria, prev, sel, properties, comparable_properties,
                   ratios_sale_cv, rates_floor_per_sqm, rates_land_per_sqm,
                   fault_log, counts_read, widened, narrowed, call, result, runs, task>>

AreaWindowsAndRooms(crit, subj, tol) ==
    LET la == calculate_filter_bounds(subj.land_area_sqm, tol, FALSE)
        fa == calculate_filter_bounds(subj.floor_area_sqm, tol, FALSE)
    IN  [crit EXCEPT !.land_area_min = la[1], !.land_area_max = la[2],
                     !.floor_area_min = fa[1], !.floor_area_max = fa[2],
                     !.bedrooms_max = IF IsNone(@) THEN @ ELSE Some(Val(@) + 1)]

\* Windows of the two area attributes at a tolerance.
AreaWindows(crit, subj, tol) ==
    LET la == calculate_filter_bounds(subj.land_area_sqm, tol, FALSE)
        fa == calculate_filter_bounds(subj.floor_area_sqm, tol, FALSE)
    IN  [crit EXCEPT !.land_area_min = la[1], !.land_area_max = la[2],
                     !.floor_area_min = fa[1], !.floor_area_max = fa[2]]

\* --- 2./3. subject attributes and initial filter criteria ---
\* The parsers return integers (never None), so the "is not None" tests of
\* the bedroom, bathroom and year windows always take the arithmetic branch.
PrepareCriteria ==
    /\ pc = "prepare"
    /\ criteria' = [AreaWindows(NoCriteria, subject, start_tolerance_percent) EXCEPT
                      !.bedrooms_min   = Some(subject.bedrooms - 1),
                      !.bedrooms_max   = Some(subject.bedrooms + 1),
                      !.bathrooms_min  = Some(subject.bathrooms - 1),
                      !.bathrooms_max  = Some(subject.bathrooms + 1),
                      !.year_built_min = Some(subject.year_built - 10),
                      !.year_built_max = Some(subject.year_built + 10)]
    /\ initial_tolerance_percent' = start_tolerance_percent
    /\ iteration_count' = 0
    /\ prev' = InitPrev
    /\ pc' = "loop_head"
    /\ UNCHANGED <<cma_data, subject, result_count, sel, properties,
                   comparable_properties, ratios_sale_cv, rates_floor_per_sqm,
                   rates_land_per_sqm, faults, fault_log, counts_read, widened, narrowed, call, result, runs, task>>

LoopHeadCountsFirst ==
    /\ pc = "loop_head"
    /\ IF iteration_count < max_iterations
       THEN /\ iteration_count' = iteration_count + 1
            /\ pc' = "count"
       ELSE /\ pc' = "after_loop"
            /\ UNCHANGED iteration_count
    /\ UNCHANGED <<cma_data, subject, initial_tolerance_percent, result_count,
                   criteria, prev, sel, properties, comparable_properties,
                   ratios_sale_cv, rates_floor_per_sqm, rates_land_per_sqm,
                   faults, fault_log, counts_read, widened, narrowed, call, result, runs, task>>

\* while iteration_count < max_iterations: iteration_count += 1
LoopHead ==
    /\ pc = "loop_head"
    /\ IF iteration_count < max_iterations
       THEN /\ iteration_count' = iteration_count + 1
            /\ pc' = "land_title"
       ELSE /\ pc' = "after_loop"
            /\ UNCHANGED iteration_count
    /\ UNCHANGED <<cma_data, subject, initial_tolerance_percent, result_count,
                   criteria, prev, sel, properties, comparable_properties,
                   ratios_sale_cv, rates_floor_per_sqm, rates_land_per_sqm,
                   faults, fault_log, counts_read, widened, narrowed, call, result, runs, task>>

\* ------------------------------------------------------- applying filters
\* Outcome of one dropdown interaction (locator count, then select_from_dropdown):
\*   ok                    the option is selected and prev_* is updated
\*   not_found             the locator matches nothing; nothing is selected
\*   select_failed         select_from_dropdown raises before the option is clicked
\*   select_failed_clicked select_from_dropdown (or the wait after it) raises after
\*                         the option was clicked: the inner except logs it
\*   raises                the locator count or the wait after the side raises: the
\*                         attribute-level except logs it and the attribute is left
SideOutcomes == {"ok", "not_found", "select_failed", "select_failed_clicked", "raises"}

Cost(o) == IF o \in {"ok", "skipped"} THEN 0 ELSE 1

\* Effect of one dropdown interaction on the tracking (prev) and on the
\* adapter's selection (sel).
SideEffect(st, d, text, stored, o) ==
    CASE o = "ok"                    -> [prev |-> [st.prev EXCEPT ![d] = stored],
                                         sel  |-> [st.sel EXCEPT ![d] = text]]
      [] o = "select_failed_clicked" -> [prev |-> st.prev,
                                         sel  |-> [st.sel EXCEPT ![d] = text]]
      [] OTHER                       -> st

Logged(d, o) == IF Cost(o) = 0 THEN {} ELSE {[dropdown |-> d, kind |-> o]}

\* One attribute's min and max dropdowns, inside the attribute's own try.
ApplyWindow(here, next, applies, dmin, tmin, smin, dmax, tmax, smax) ==
    /\ pc = here
    /\ pc' = next
    /\ IF ~applies
       THEN /\ fault_log' = {}
            /\ UNCHANGED <<prev, sel, faults>>
       ELSE \E omin \in SideOutcomes, omax \in SideOutcomes \cup {"skipped"} :
              /\ (omax = "skipped") <=> (omin = "raises")
              /\ faults + Cost(omin) + Cost(omax) <= MaxFaults
              /\ LET s1 == SideEffect([prev |-> prev, sel |-> sel], dmin, tmin, smin, omin)
                     s2 == SideEffect(s1, dmax, tmax, smax, omax)
                 IN  /\ prev' = s2.prev
                     /\ sel' = s2.sel
              /\ faults' = faults + Cost(omin) + Cost(omax)
              /\ fault_log' = Logged(dmin, omin) \cup Logged(dmax, omax)
    /\ UNCHANGED <<cma_data, subject, initial_tolerance_percent, iteration_count,
                   result_count, criteria, properties, comparable_properties,
                   ratios_sale_cv, rates_floor_per_sqm, rates_land_per_sqm,
                   counts_read, widened, narrowed, call, result, runs, task>>

\* Land title: the locator count and the waits after the selection are not
\* inside any inner try.
ApplyLandTitle ==
    /\ pc = "land_title"
    /\ \E o \in (SideOutcomes \ {"raises"}) \cup {"count_raises"}, w \in {"ok", "wait_raises"} :
          /\ o = "count_raises" => w = "ok"
          /\ faults + Cost(o) + Cost(w) <= MaxFaults
          /\ faults' = faults + Cost(o) + Cost(w)
          /\ fault_log' = Logged("land_title", o) \cup Logged("land_title", w)
          /\ LET s == SideEffect([prev |-> prev, sel |-> sel], "land_title",
                                 subject.land_title, subject.land_title, o)
             IN  /\ prev' = s.prev
                 /\ sel' = s.sel
          /\ IF o = "count_raises" \/ w = "wait_raises"
             THEN Raise("land title")
             ELSE /\ pc' = "floor_area"
                  /\ UNCHANGED cma_data
    /\ UNCHANGED <<subject, initial_tolerance_percent, iteration_count,
                   result_count, criteria, properties, comparable_properties,
                   ratios_sale_cv, rates_floor_per_sqm, rates_land_per_sqm,
                   counts_read, widened, narrowed, call, result, runs, task>>

\* str(option); an unbounded window is never snapped (the attribute is skipped).
OptionText(o) == IF IsNone(o) THEN "None" ELSE ToString(Val(o))

Snap(bound, options, is_upper_bound) ==
    IF IsNone(bound) THEN None
    ELSE find_closest_boundary_option(Val(bound), options, is_upper_bound)

closest_floor_area_min_option == Snap(criteria.floor_area_min, floor_area_options, FALSE)
closest_floor_area_max_option == Snap(criteria.floor_area_max, floor_area_options, TRUE)

ApplyFloorArea ==
    ApplyWindow("floor_area", "bedrooms",
                ~IsNone(criteria.floor_area_min) /\ ~IsNone(criteria.floor_area_max),
                "floor_area_min", OptionText(closest_floor_area_min_option),
                                  OptionText(closest_floor_area_min_option),
                "floor_area_max", OptionText(closest_floor_area_max_option),
                                  OptionText(closest_floor_area_max_option))

\* Whole-unit windows are handed to the snapper in hundredths.
Units(bound) == IF IsNone(bound) THEN None ELSE Some(Val(bound) * 100)

closest_bedroom_min_option == Snap(Units(criteria.bedrooms_min), bedroom_options, FALSE)
closest_bedroom_max_option == Snap(Units(criteria.bedrooms_max), bedroom_options, TRUE)

ApplyBedrooms ==
    ApplyWindow("bedrooms", "bathrooms",
                ~IsNone(criteria.bedrooms_min) /\ ~IsNone(criteria.bedrooms_max),
                "bedrooms_min", OptionText(closest_bedroom_min_option),
                                OptionText(closest_bedroom_min_option),
                "bedrooms_max", OptionText(closest_bedroom_max_option),
                                OptionText(closest_bedroom_max_option))

closest_bathroom_min_option == Snap(Units(criteria.bathrooms_min), bathroom_options, FALSE)
closest_bathroom_max_option == Snap(Units(criteria.bathrooms_max), bathroom_options, TRUE)

ApplyBathrooms ==
    ApplyWindow("bathrooms", "year_built",
                ~IsNone(criteria.bathrooms_min) /\ ~IsNone(criteria.bathrooms_max),
                "bathrooms_min", OptionText(closest_bathroom_min_option),
                                 OptionText(closest_bathroom_min_option),
                "bathrooms_max", OptionText(closest_bathroom_max_option),
                                 OptionText(closest_bathroom_max_option))

\* Both sides of the build-year window are snapped with is_upper_bound=False.
closest_year_built_min_option == Snap(Units(criteria.year_built_min), year_built_options, FALSE)
closest_year_built_max_option == Snap(Units(criteria.year_built_max), year_built_options, FALSE)

ApplyYearBuilt ==
    ApplyWindow("year_built", "land_area",
                ~IsNone(criteria.year_built_min) /\ ~IsNone(criteria.year_built_max),
                "year_built_min", OptionText(closest_year_built_min_option),
                                  OptionText(closest_year_built_min_option),
                "year_built_max", OptionText(closest_year_built_max_option),
                                  OptionText(closest_year_built_max_option))

closest_land_area_min_option == Snap(criteria.land_area_min, land_area_options, FALSE)
closest_land_area_max_option == Snap(criteria.land_area_max, land_area_options, TRUE)

\* Options of 10000 m2 and more are divided by 10000 (a float) and asked for
\* as "<x>ha"; prev_* then holds the float x * 10000.
HectareThreshold == 10000
LandOptionText(o) ==
    IF IsNone(o) THEN "None"
    ELSE IF Val(o) >= HectareThreshold
         THEN ToString(Val(o) \div HectareThreshold) \o ".0ha"
         ELSE ToString(Val(o))
LandOptionStored(o) ==
    IF IsNone(o) THEN "None"
    ELSE IF Val(o) >= HectareThreshold
         THEN ToString(Val(o)) \o ".0"
         ELSE ToString(Val(o))

ApplyLandArea ==
    ApplyWindow("land_area", "count",
                ~IsNone(criteria.land_area_min) /\ ~IsNone(criteria.land_area_max),
                "land_area_min", LandOptionText(closest_land_area_min_option),
                                 LandOptionStored(closest_land_area_min_option),
                "land_area_max", LandOptionText(closest_land_area_max_option),
                                 LandOptionStored(closest_land_area_max_option))

\* ------------------------------------------------------ count and decision
\* Counts the adapter can report (the first run of digits of the results text).
Counts == {2, 5, 8, 15, 16}

\* --- Check Results Count ---  result_count = 0, then the query inside a try
\* whose except only logs: a failed query leaves result_count at 0.
CheckResultsCount ==
    /\ pc = "count"
    /\ \/ \E c \in Counts :
             /\ result_count' = c
             /\ counts_read' = counts_read + 1
             /\ UNCHANGED faults
       \/ /\ CanFault
          /\ faults' = faults + 1
          /\ result_count' = 0
          /\ counts_read' = counts_read + 1
    /\ pc' = "evaluate"
    /\ fault_log' = {}
    /\ UNCHANGED <<cma_data, subject, initial_tolerance_percent, iteration_count,
                   criteria, prev, sel, properties, comparable_properties,
                   ratios_sale_cv, rates_floor_per_sqm, rates_land_per_sqm,
                   widened, narrowed, call, result, runs, task>>

InBand(count) == target_min_comps <= count /\ count <= target_max_comps

LoosenTwice(tolerance) == tolerance + 2 * tolerance_step_percent
TightenNoFloor(tolerance) == tolerance - tolerance_step_percent

\* Tolerance after a below-band count and after an above-band count.
Loosen(tolerance) == tolerance + tolerance_step_percent
Tighten(tolerance) ==
    IF tolerance - tolerance_step_percent > min_tolerance_percent
    THEN tolerance - tolerance_step_percent
    ELSE min_tolerance_percent

\* --- Evaluate Result Count and Adjust Filters ---, then the delay before
\* the next iteration (skipped by the break).
EvaluateCount ==
    /\ pc = "evaluate"
    /\ IF InBand(result_count)
       THEN /\ cma_data' = [cma_data EXCEPT !.CMA_Status =
                               Status("Success", result_count, "")]
            /\ pc' = "after_loop"
            /\ UNCHANGED <<initial_tolerance_percent, criteria, widened, narrowed, faults>>
       ELSE /\ IF result_count < target_min_comps
               THEN /\ initial_tolerance_percent' = Loosen(initial_tolerance_percent)
                    /\ widened' = widened + 1
                    /\ UNCHANGED narrowed
               ELSE /\ initial_tolerance_percent' = Tighten(initial_tolerance_percent)
                    /\ narrowed' = narrowed + 1
                    /\ UNCHANGED widened
            /\ criteria' = AreaWindows(criteria, subject, initial_tolerance_percent')
            /\ \/ /\ pc' = "loop_head"
                  /\ UNCHANGED <<cma_data, faults>>
               \/ /\ CanFault
                  /\ faults' = faults + 1
                  /\ Raise("delay")
    /\ UNCHANGED <<subject, iteration_count, result_count, prev, sel, properties,
                   comparable_properties, ratios_sale_cv, rates_floor_per_sqm,
                   rates_land_per_sqm, fault_log, counts_read, call, result, runs, task>>

\* if iteration_count >= max_iterations: Partial Success
AfterLoop ==
    /\ pc = "after_loop"
    /\ cma_data' = IF iteration_count >= max_iterations
                   THEN [cma_data EXCEPT !.CMA_Status =
                            Status("Partial Success", result_count, "")]
                   ELSE cma_data
    /\ pc' = "extract"
    /\ UNCHANGED <<subject, initial_tolerance_percent, iteration_count, result_count,
                   criteria, prev, sel, properties, comparable_properties,
                   ratios_sale_cv, rates_floor_per_sqm, rates_land_per_sqm,
                   faults, fault_log, counts_read, widened, narrowed, call, result, runs, task>>

\* ------------------------------------------------------------- extraction
\* What the patterns CV / Sale/CV / Land / Floor find on one card.
CardResults ==
    { [CV |-> Some(450), SaleCV |-> Some(111), Land |-> Some(900), Floor |-> Some(3000)],
      [CV |-> None, SaleCV |-> None, Land |-> None, Floor |-> None] }

CardLists == UNION {[1..n -> CardResults] : n \in 0..MaxCards}

\* --- 5. Extract Comparable Sales Data ---
ExtractComparables ==
    /\ pc = "extract"
    /\ \/ \E cards \in CardLists :
             /\ properties' = cards
             /\ pc' = "pause"
             /\ UNCHANGED <<cma_data, faults>>
       \/ /\ CanFault
          /\ faults' = faults + 1
          /\ Raise("extract")
          /\ UNCHANGED properties
    /\ UNCHANGED <<subject, initial_tolerance_percent, iteration_count, result_count,
                   criteria, prev, sel, comparable_properties,
                   ratios_sale_cv, rates_floor_per_sqm, rates_land_per_sqm,
                   fault_log, counts_read, widened, narrowed, call, result, runs, task>>

\* input("pause"): returns when a line arrives on stdin, raises EOFError when
\* stdin is closed.
Pause ==
    /\ pc = "pause"
    /\ \/ /\ pc' = "benchmarks"
          /\ UNCHANGED <<cma_data, faults>>
       \/ /\ CanFault
          /\ faults' = faults + 1
          /\ Raise("EOF when reading a line")
    /\ UNCHANGED <<subject, initial_tolerance_percent, iteration_count, result_count,
                   criteria, prev, sel, properties, comparable_properties,
                   ratios_sale_cv, rates_floor_per_sqm, rates_land_per_sqm,
                   fault_log, counts_read, widened, narrowed, call, result, runs, task>>

\* ------------------------------------------------------------- benchmarks
FilterSettings(subj, crit) ==
    [Land_Title |-> subj.land_title,
     Land_Area_Min |-> crit.land_area_min, Land_Area_Max |-> crit.land_area_max,
     Floor_Area_Min |-> crit.floor_area_min, Floor_Area_Max |-> crit.floor_area_max,
     Bedrooms_Min |-> crit.bedrooms_min, Bedrooms_Max |-> crit.bedrooms_max,
     Bathrooms_Min |-> crit.bathrooms_min, Bathrooms_Max |-> crit.bathrooms_max,
     Year_Built_Min |-> crit.year_built_min, Year_Built_Max |-> crit.year_built_max]

RecordRunWithRatio(cma, props, iterations, subj, crit) ==
    [cma EXCEPT !.CMA_Comparable_Count = Len(props),
                !.CMA_Comparable_Details = Some(props),
                !.CMA_Iterations_Performed = iterations,
                !.CMA_Filter_Settings_Used = Some(FilterSettings(subj, crit)),
                !.CMA_Benchmark_1_Avg_Sale_CV_Ratio = Some(0)]

\* cma_data after the assignments that open step 6.
RecordRun(cma, props, iterations, subj, crit) ==
    [cma EXCEPT !.CMA_Comparable_Count = Len(props),
                !.CMA_Comparable_Details = Some(props),
                !.CMA_Iterations_Performed = iterations,
                !.CMA_Filter_Settings_Used = Some(FilterSettings(subj, crit))]

\* The name comparable_properties is read by step 6 but bound nowhere in the
\* function or the module: evaluating it raises NameError.
comparable_properties_is_bound == FALSE

\* --- 6. Calculate Benchmarks --- as reached by a run.
CalculateBenchmarks ==
    /\ pc = "benchmarks"
    /\ LET recorded == RecordRun(cma_data, properties, iteration_count, subject, criteria)
       IN  IF comparable_properties_is_bound
           THEN /\ cma_data' = recorded
                /\ pc' = "empty_check"
           ELSE /\ cma_data' = OnException(recorded, "name 'comparable_properties' is not defined")
                /\ pc' = "done"
    /\ UNCHANGED <<subject, initial_tolerance_percent, iteration_count, result_count,
                   criteria, prev, sel, properties, comparable_properties,
                   ratios_sale_cv, rates_floor_per_sqm, rates_land_per_sqm,
                   faults, fault_log, counts_read, widened, narrowed, call, result, runs, task>>

Next ==
    \/ NavigateToCMA
    \/ ClickSlider
    \/ ClickExpand
    \/ PrepareCriteria
    \/ LoopHead
    \/ ApplyLandTitle
    \/ ApplyFloorArea
    \/ ApplyBedrooms
    \/ ApplyBathrooms
    \/ ApplyYearBuilt
    \/ ApplyLandArea
    \/ CheckResultsCount
    \/ EvaluateCount
    \/ AfterLoop
    \/ ExtractComparables
    \/ Pause
    \/ CalculateBenchmarks

Spec == Init /\ [][Next]_vars

\* The steps that end by themselves: each awaited adapter call returns or
\* times out, and the code between two calls runs on.  input("pause") is not
\* among them: it returns only when a line arrives on stdin or stdin is closed.
ProgramSteps ==
    \/ NavigateToCMA
    \/ ClickSlider
    \/ ClickExpand
    \/ PrepareCriteria
    \/ LoopHead
    \/ ApplyLandTitle
    \/ ApplyFloorArea
    \/ ApplyBedrooms
    \/ ApplyBathrooms
    \/ ApplyYearBuilt
    \/ ApplyLandArea
    \/ CheckResultsCount
    \/ EvaluateCount
    \/ AfterLoop
    \/ ExtractComparables
    \/ CalculateBenchmarks

SpecLive == Spec /\ WF_vars(ProgramSteps)

\* ------------------------------------------- the benchmark step on its own
\* The code after the read of comparable_properties, applied to a list of
\* comparables as its loop would see them.  Ratios are exact fractions
\* <<numerator, denominator>>, kept in lowest terms; a rounded figure is an
\* integer count of its last decimal place (round(x, 4) = 1.1556 is 11556).
CompRecords ==
    [price_nzd : {None, Some(0), Some(60)},
     cv_nzd : {None, Some(0), Some(-4), Some(4)},
     floor_area_sqm : {None, Some(5)},
     land_area_sqm : {Some(0), Some(6)}]

\* Two sales priced above their capital values; .get() gives None for the
\* areas the records do not carry.
ExampleComps ==
    << [price_nzd |-> Some(500000), cv_nzd |-> Some(450000),
        floor_area_sqm |-> None, land_area_sqm |-> None],
       [price_nzd |-> Some(600000), cv_nzd |-> Some(500000),
        floor_area_sqm |-> None, land_area_sqm |-> None] >>

CompLists == UNION {[1..n -> CompRecords] : n \in 0..MaxComps} \cup {ExampleComps}

\* Python truth value of an optional number: None and 0 are false.
Truthy(x) == ~IsNone(x) /\ Val(x) # 0

QualifiesAnySign(price, denominator) == Truthy(price) /\ Truthy(denominator)

\* if price and cv and cv > 0   (likewise floor_area, land_area)
Qualifies(price, denominator) ==
    Truthy(price) /\ Truthy(denominator) /\ Val(denominator) > 0

RECURSIVE Rates(_, _)
\* The list one of the three appends builds over the comparables, in order.
Rates(props, field) ==
    IF props = <<>>
    THEN <<>>
    ELSE LET prop == props[Len(props)]
             rest == Rates(SubSeq(props, 1, Len(props) - 1), field)
         IN  IF Qualifies(prop.price_nzd, prop[field])
             THEN Append(rest, <<Val(prop.price_nzd), Val(prop[field])>>)
             ELSE rest

RECURSIVE GCD(_, _)
GCD(a, b) == IF b = 0 THEN a ELSE GCD(b, a % b)

\* The same fraction in lowest terms (numerator >= 0, denominator > 0).
Reduce(r) == LET g == GCD(r[1], r[2]) IN <<r[1] \div g, r[2] \div g>>

RatAdd(a, b) ==
    LET x == Reduce(a)
        y == Reduce(b)
    IN  Reduce(<<x[1] * y[2] + y[1] * x[2], x[2] * y[2]>>)

RECURSIVE RatSum(_)
RatSum(rs) == IF rs = <<>> THEN <<0, 1>>
              ELSE RatAdd(RatSum(SubSeq(rs, 1, Len(rs) - 1)), rs[Len(rs)])

\* sum(rates) / len(rates)
AverageOverAll(rs) == Reduce(<<RatSum(rs)[1], RatSum(rs)[2] * (Len(rs) + 1)>>)

Average(rs) == Reduce(<<RatSum(rs)[1], RatSum(rs)[2] * Len(rs)>>)

\* average * subject value
Projected(avg, value) == Reduce(<<avg[1] * value, avg[2] >>)

\* Nearest integer to a fraction >= 0, ties to the even neighbour (round and
\* the .0f format both round this way).
RoundHalfEven(r) ==
    LET q == r[1] \div r[2]
        twice == 2 * (r[1] % r[2])
    IN  IF twice > r[2] \/ (twice = r[2] /\ q % 2 = 1) THEN q + 1 ELSE q

RECURSIVE Pow10(_)
Pow10(n) == IF n = 0 THEN 1 ELSE 10 * Pow10(n - 1)

\* round(x, ndigits), counted in units of 10^-ndigits
round(x, ndigits) == RoundHalfEven(<<x[1] * Pow10(ndigits), x[2]>>)

ThreeDigits(n) == IF n < 10 THEN "00" \o ToString(n)
                  ELSE IF n < 100 THEN "0" \o ToString(n) ELSE ToString(n)

RECURSIVE Grouped(_)
\* the "," of the format: digits in groups of three
Grouped(n) == IF n < 1000 THEN ToString(n)
              ELSE Grouped(n \div 1000) \o "," \o ThreeDigits(n % 1000)

\* f"${x:,.0f}"
FormatDollars(x) == "$" \o Grouped(RoundHalfEven(x))

BenchInit ==
    /\ pc = "empty_check"
    /\ RunInit
    /\ comparable_properties \in CompLists

\* if not comparable_properties: "Completed, but no comparables found ..."
EmptyCheck ==
    /\ pc = "empty_check"
    /\ IF comparable_properties = <<>>
       THEN /\ cma_data' = [cma_data EXCEPT !.CMA_Status =
                               Status("Completed, but no comparables found for benchmarks.", 0, "")]
            /\ pc' = "done"
       ELSE /\ pc' = "collect"
            /\ UNCHANGED cma_data
    /\ UNCHANGED <<subject, initial_tolerance_percent, iteration_count, result_count,
                   criteria, prev, sel, properties, comparable_properties,
                   ratios_sale_cv, rates_floor_per_sqm, rates_land_per_sqm,
                   faults, fault_log, counts_read, widened, narrowed, call, result, runs, task>>

\* for prop in comparable_properties: the three conditional appends
CollectRates ==
    /\ pc = "collect"
    /\ ratios_sale_cv' = Rates(comparable_properties, "cv_nzd")
    /\ rates_floor_per_sqm' = Rates(comparable_properties, "floor_area_sqm")
    /\ rates_land_per_sqm' = Rates(comparable_properties, "land_area_sqm")
    /\ pc' = "compute"
    /\ UNCHANGED <<cma_data, subject, initial_tolerance_percent, iteration_count,
                   result_count, criteria, prev, sel, properties, comparable_properties,
                   faults, fault_log, counts_read, widened, narrowed, call, result, runs, task>>

\* subject_cv = float(raw) if raw.isdigit() else 0
subject_cv(subj) == IF IsNone(subj.capital_value) THEN 0 ELSE Val(subj.capital_value)

Benchmark1(cma, subj, ratios) ==
    IF ratios # <<>> /\ subject_cv(subj) > 0
    THEN [cma EXCEPT !.CMA_Benchmark_1_Avg_Sale_CV_Ratio = Some(round(Average(ratios), 4)),
                     !.CMA_Benchmark_1_Valuation =
                         Some(FormatDollars(Projected(Average(ratios), subject_cv(subj))))]
    ELSE cma

Benchmark2(cma, subj, rates) ==
    IF rates # <<>> /\ subj.floor_area_sqm # 0 /\ subj.floor_area_sqm > 0
    THEN [cma EXCEPT !.CMA_Benchmark_2_Avg_Floor_PerSqm = Some(round(Average(rates), 2)),
                     !.CMA_Benchmark_2_Valuation =
                         Some(FormatDollars(Projected(Average(rates), subj.floor_area_sqm)))]
    ELSE cma

Benchmark3(cma, subj, rates) ==
    IF rates # <<>> /\ subj.land_area_sqm # 0 /\ subj.land_area_sqm > 0
    THEN [cma EXCEPT !.CMA_Benchmark_3_Avg_Land_PerSqm = Some(round(Average(rates), 2)),
                     !.CMA_Benchmark_3_Valuation =
                         Some(FormatDollars(Projected(Average(rates), subj.land_area_sqm)))]
    ELSE cma

\* if cma_data["CMA_Status"] == "Not Started": cma_data["CMA_Status"] = "Completed"
Completed(cma) ==
    IF cma.CMA_Status.kind = "Not Started"
    THEN [cma EXCEPT !.CMA_Status = Status("Completed", 0, "")]
    ELSE cma

\* Benchmarks 1 to 3 and the closing status update.
ComputeBenchmarks ==
    /\ pc = "compute"
    /\ cma_data' = Completed(Benchmark3(Benchmark2(Benchmark1(cma_data, subject,
                        ratios_sale_cv), subject, rates_floor_per_sqm),
                        subject, rates_land_per_sqm))
    /\ pc' = "done"
    /\ UNCHANGED <<subject, initial_tolerance_percent, iteration_count, result_count,
                   criteria, prev, sel, properties, comparable_properties,
                   ratios_sale_cv, rates_floor_per_sqm, rates_land_per_sqm,
                   faults, fault_log, counts_read, widened, narrowed, call, result, runs, task>>

BenchNext ==
    \/ EmptyCheck
    \/ CollectRates
    \/ ComputeBenchmarks

SpecBench == BenchInit /\ [][BenchNext]_vars

\* ------------------------------------------- helper functions on their own
\* A helper applied to arguments drawn from bounded sets: call holds the
\* arguments, result what the helper returned.  Text is a sequence of
\* one-character strings; the superscript two is written "^2".
run_vars == <<cma_data, subject, initial_tolerance_percent, iteration_count,
              result_count, criteria, prev, sel, properties, comparable_properties,
              ratios_sale_cv, rates_floor_per_sqm, rates_land_per_sqm,
              faults, fault_log, counts_read, widened, narrowed>>

HelperInit ==
    /\ pc = "call"
    /\ NoRun
    /\ subject = [land_title |-> "", land_area_sqm |-> -1, floor_area_sqm |-> -1,
                  bedrooms |-> -1, bathrooms |-> -1, year_built |-> -1,
                  capital_value |-> None]
    /\ comparable_properties = <<>>
    /\ result = None
    /\ runs = None
    /\ task = None

\* Python values a caller can pass.
PyNone == [type |-> "NoneType"]
PyStr(chars) == [type |-> "str", chars |-> chars]
PyInt(n) == [type |-> "int", value |-> n]
PyList == [type |-> "list"]

Returns(v) == [raised |-> FALSE, value |-> v]
Raises(e) == [raised |-> TRUE, error |-> e]

Digits == {"0", "1", "2", "3", "4", "5", "6", "7", "8", "9"}
IsDigit(c) == c \in Digits
IsDot(c) == c = "."
IsSpace(c) == c = " "

DigitValue(c) ==
    CASE c = "0" -> 0 [] c = "1" -> 1 [] c = "2" -> 2 [] c = "3" -> 3 [] c = "4" -> 4
      [] c = "5" -> 5 [] c = "6" -> 6 [] c = "7" -> 7 [] c = "8" -> 8 [] c = "9" -> 9

RECURSIVE DigitsValue(_)
\* int() of a run of digits
DigitsValue(ds) == IF ds = <<>> THEN 0
                   ELSE 10 * DigitsValue(SubSeq(ds, 1, Len(ds) - 1)) + DigitValue(ds[Len(ds)])

\* str.strip(): the text between its first and last non-space characters
strip(text) ==
    LET solid == {i \in 1..Len(text) : ~IsSpace(text[i])}
    IN  IF solid = {} THEN <<>> ELSE SubSeq(text, SetMin(solid), SetMax(solid))

\* float(text): an optional sign, digits with at most one "." and at least one
\* digit, spaces around it ignored; any other text raises ValueError.  The
\* value is the fraction <<numerator, denominator>>.
float(text) ==
    LET t == strip(text)
        signed == t # <<>> /\ t[1] \in {"-", "+"}
        body == IF signed THEN Tail(t) ELSE t
        ds == SelectSeq(body, IsDigit)
        dots == {i \in 1..Len(body) : IsDot(body[i])}
        decimals == IF dots = {} THEN 0 ELSE Len(body) - SetMax(dots)
        sign == IF signed /\ t[1] = "-" THEN -1 ELSE 1
    IN  IF /\ \A i \in 1..Len(body) : IsDigit(body[i]) \/ IsDot(body[i])
           /\ ds # <<>>
           /\ Cardinality(dots) <= 1
        THEN Returns(<<sign * DigitsValue(ds), Pow10(decimals)>>)
        ELSE Raises("ValueError")

\* A fraction that denotes a whole number, as that number.
WholeUnits(r) == r[1] \div r[2]

\* calculate_filter_bounds for any Python value: None and "" return early,
\* float() raising ValueError or TypeError is caught, a number goes through
\* the arithmetic.  The numeric texts drawn denote whole numbers.
calculate_filter_bounds_any(subject_value, tolerance_percent, is_integer) ==
    IF subject_value.type = "NoneType" \/ subject_value = PyStr(<<>>)
    THEN <<None, None>>
    ELSE LET val == CASE subject_value.type = "int" -> Returns(<<subject_value.value, 1>>)
                      [] subject_value.type = "str" -> float(subject_value.chars)
                      [] OTHER -> Raises("TypeError")
         IN  IF val.raised
             THEN <<None, None>>
             ELSE calculate_filter_bounds(WholeUnits(val.value), tolerance_percent,
                                          is_integer)

\* Arguments drawn for calculate_filter_bounds.
MaxValue == 12
MaxTolerance == 45

BoundsTexts == {<<>>, <<"a", "b", "c">>, <<"N", "/", "A">>, <<"1", "8", "0">>,
                <<" ", "9", "5", " ">>, <<"-", "1">>, <<"0">>, <<"4", ".", "0">>,
                <<".">>, <<"1", ".", "2", ".", "3">>}

BoundsValues == {PyNone, PyList} \cup {PyStr(t) : t \in BoundsTexts}
                   \cup {PyInt(n) : n \in -2..MaxValue}

Tolerances == 0..MaxTolerance \cup {100, 150}

BoundsInit ==
    /\ HelperInit
    /\ call \in [subject_value : BoundsValues, tolerance_percent : Tolerances,
                  other_tolerance : {0, 5, 20, 45, 150}, is_integer : BOOLEAN]

\* The function applied to the value at both tolerances.
CallBounds ==
    /\ pc = "call"
    /\ result' = <<calculate_filter_bounds_any(call.subject_value,
                        call.tolerance_percent, call.is_integer),
                   calculate_filter_bounds_any(call.subject_value,
                        call.other_tolerance, call.is_integer)>>
    /\ pc' = "returned"
    /\ UNCHANGED <<run_vars, call, runs, task>>

BoundsNext == CallBounds

SpecBounds == BoundsInit /\ [][BoundsNext]_vars

\* Arguments drawn for find_closest_boundary_option: every ascending list over
\* a small set of options, and a computed window lo <= hi in hundredths.
MaxOptions == 3

OptionUniverse == {10 * k : k \in 1..MaxOptions}

Ascending(S) ==
    CHOOSE f \in [1..Cardinality(S) -> S] :
        \A i, j \in 1..Cardinality(S) : i < j => f[i] < f[j]

AscendingLists == {Ascending(S) : S \in SUBSET OptionUniverse}

BoundValues == {250 * k : k \in -1..(4 * MaxOptions + 4)}

SnapInit ==
    /\ HelperInit
    /\ call \in [lo : BoundValues, hi : BoundValues, boundary_options : AscendingLists]
    /\ call.lo <= call.hi

\* The window's lower side snapped as a min filter, its upper side as a max
\* filter.
CallSnap ==
    /\ pc = "call"
    /\ result' = [lower |-> find_closest_boundary_option(call.lo, call.boundary_options,
                                                        FALSE),
                  upper |-> find_closest_boundary_option(call.hi, call.boundary_options,
                                                        TRUE)]
    /\ pc' = "returned"
    /\ UNCHANGED <<run_vars, call, runs, task>>

SnapNext == CallSnap

SpecSnap == SnapInit /\ [][SnapNext]_vars

\* ------------------------------------------------- the attribute parsers
UpperCase == <<"A", "B", "C", "D", "E", "F", "G", "H", "I", "J", "K", "L", "M",
               "N", "O", "P", "Q", "R", "S", "T", "U", "V", "W", "X", "Y", "Z">>
LowerCase == <<"a", "b", "c", "d", "e", "f", "g", "h", "i", "j", "k", "l", "m",
               "n", "o", "p", "q", "r", "s", "t", "u", "v", "w", "x", "y", "z">>

\* str.lower()
lower(text) ==
    [i \in 1..Len(text) |->
        IF \E k \in 1..Len(UpperCase) : UpperCase[k] = text[i]
        THEN LowerCase[CHOOSE k \in 1..Len(UpperCase) : UpperCase[k] = text[i]]
        ELSE text[i]]

\* pattern in text
Contains(text, pattern) ==
    \E i \in 1..(Len(text) - Len(pattern) + 1) :
        SubSeq(text, i, i + Len(pattern) - 1) = pattern

\* [\d.,]
InNumberClass(c) == IsDigit(c) \/ c = "." \/ c = ","
NotComma(c) == c # ","

NumberClass == Digits \cup {".", ","}

\* Where re.search finds class+ in the text: the first character of the
\* class and the run it starts; <<>> when there is none.
FirstRun(text, class) ==
    LET starts == {i \in 1..Len(text) : text[i] \in class}
    IN  IF starts = {}
        THEN <<>>
        ELSE LET first == SetMin(starts)
                 last == SetMax({j \in first..Len(text) :
                                    \A k \in first..j : text[k] \in class})
             IN  SubSeq(text, first, last)

\* if text: (None and "" are false)
Falsy(text) == text = PyNone \/ text = PyStr(<<>>)

parse_year_built(year_text) ==
    IF Falsy(year_text)
    THEN Returns(-1)
    ELSE LET match == FirstRun(year_text.chars, Digits)
         IN  IF match # <<>> THEN Returns(DigitsValue(match)) ELSE Returns(-1)

parse_bed_bath(text) ==
    IF Falsy(text)
    THEN Returns(-1)
    ELSE LET match == FirstRun(text.chars, Digits)
         IN  IF match # <<>> THEN Returns(DigitsValue(match)) ELSE Returns(-1)

parse_area_ignores_unit(text) ==
    IF Falsy(text)
    THEN Returns(-1)
    ELSE LET match == FirstRun(text.chars, NumberClass)
             value == float(SelectSeq(match, NotComma))
         IN  IF match = <<>> THEN Returns(-1)
             ELSE IF value.raised THEN value
             ELSE Returns(RoundHalfEven(value.value))

\* The ValueError of float() is not caught: it leaves parse_area.
parse_area(text) ==
    IF Falsy(text)
    THEN Returns(-1)
    ELSE LET match == FirstRun(text.chars, NumberClass)
             value == float(SelectSeq(match, NotComma))
             text_lower == lower(text.chars)
         IN  IF match = <<>> THEN Returns(-1)
             ELSE IF value.raised THEN value
             ELSE IF Contains(text_lower, <<"h", "a">>)
                  THEN Returns(RoundHalfEven(<<value.value[1] * 10000, value.value[2]>>))
             ELSE IF Contains(text_lower, <<"m", "2">>) \/ Contains(text_lower, <<"m", "^2">>)
                  THEN Returns(RoundHalfEven(value.value))
             ELSE Returns(RoundHalfEven(value.value))

\* re.match(r"^(.*?)\s*[\d.,]+") on the stripped text: group 1 ends where the
\* spaces before the first character of the class begin.
parse_land_title(text) ==
    IF Falsy(text)
    THEN Returns(<<>>)
    ELSE LET t == strip(text.chars)
             starts == {i \in 1..Len(t) : InNumberClass(t[i])}
         IN  IF starts = {}
             THEN Returns(<<>>)
             ELSE LET first == SetMin(starts)
                      group == SetMin({j \in 1..first :
                                          \A k \in j..(first - 1) : IsSpace(t[k])})
                  IN  Returns(strip(SubSeq(t, 1, group - 1)))

\* Texts drawn for the parsers: every text of at most MaxLen characters over
\* a small alphabet, and some field texts as the page shows them.
MaxLen == 4

ParseAlphabet == {"2", ".", ",", " ", "h", "a", "m", "^2"}

ShortTexts == UNION {[1..n -> ParseAlphabet] : n \in 0..MaxLen}

FieldTexts ==
    { <<"1", ".", "2", "3", "4", " ", "h", "a">>,
      <<"1", "8", "0", " ", "m", "^2">>,
      <<"F", "r", "e", "e", "h", "o", "l", "d", " ", "4", "5", "0", " ", "m", "^2">>,
      <<"T", "i", "m", "e", "s", "h", "a", "r", "e", " ", "4", "5", "0", " ", "m", "^2">>,
      <<"C", "r", "o", "s", "s", " ", "L", "e", "a", "s", "e">>,
      <<"1", ",", "2", "0", "0", " ", "m", "2">>,
      <<"1", ".", "2", ".", "3">>,
      <<"2", "0", "2", "0", " ", "s">>,
      <<"4">> }

ParseInit ==
    /\ HelperInit
    /\ call \in [text : {PyNone} \cup {PyStr(t) : t \in ShortTexts \cup FieldTexts}]

\* The four parsers applied to the text.
CallParsers ==
    /\ pc = "call"
    /\ result' = [area |-> parse_area(call.text),
                  land_title |-> parse_land_title(call.text),
                  bed_bath |-> parse_bed_bath(call.text),
                  year_built |-> parse_year_built(call.text)]
    /\ pc' = "returned"
    /\ UNCHANGED <<run_vars, call, runs, task>>

ParseNext == CallParsers

SpecParse == ParseInit /\ [][ParseNext]_vars

\* ------------------------------------------------- two interleaved runs
\* get_relab_data handles each request by its own call of
\* perform_cma_analysis; the tolerance, the criteria, the prev_* tracking and
\* the iteration count are local names of that call.  runs[r] holds the
\* locals of run r; the ghost field seen lists the counts the adapter gave
\* that run.  Filter applications succeed; the feedback is the count.
Runs == {1, 2}

FeedbackCounts == {2, 8, 16}

PairSubject(r) ==
    IF r = 1 THEN CHOOSE s \in Subjects : s.land_title = "Freehold"
    ELSE CHOOSE s \in Subjects : s.land_title = "Cross Lease"

\* initial_filter_criteria as built before the loop
InitialCriteria(subj) ==
    [AreaWindows(NoCriteria, subj, start_tolerance_percent) EXCEPT
        !.bedrooms_min   = Some(subj.bedrooms - 1),
        !.bedrooms_max   = Some(subj.bedrooms + 1),
        !.bathrooms_min  = Some(subj.bathrooms - 1),
        !.bathrooms_max  = Some(subj.bathrooms + 1),
        !.year_built_min = Some(subj.year_built - 10),
        !.year_built_max = Some(subj.year_built + 10)]

\* The area options a successful apply step selects and records in prev_*.
AppliedOptions(crit) ==
    [floor_area_min |-> find_closest_boundary_option(Val(crit.floor_area_min),
                                                     floor_area_options, FALSE),
     floor_area_max |-> find_closest_boundary_option(Val(crit.floor_area_max),
                                                     floor_area_options, TRUE),
     land_area_min  |-> find_closest_boundary_option(Val(crit.land_area_min),
                                                     land_area_options, FALSE),
     land_area_max  |-> find_closest_boundary_option(Val(crit.land_area_max),
                                                     land_area_options, TRUE)]

StartRun(subj) ==
    [pc |-> "loop_head",
     subject |-> subj,
     initial_tolerance_percent |-> start_tolerance_percent,
     iteration_count |-> 0,
     result_count |-> 0,
     criteria |-> InitialCriteria(subj),
     prev |-> [floor_area_min |-> None, floor_area_max |-> None,
               land_area_min |-> None, land_area_max |-> None],
     status |-> Status("Not Started", 0, ""),
     seen |-> <<>>]

LoopHeadOf(l) ==
    IF l.iteration_count < max_iterations
    THEN [l EXCEPT !.iteration_count = @ + 1, !.pc = "apply"]
    ELSE [l EXCEPT !.pc = "after_loop"]

ApplyOf(l) == [l EXCEPT !.prev = AppliedOptions(l.criteria), !.pc = "count"]

CountOf(l, c) == [l EXCEPT !.result_count = c, !.seen = Append(@, c), !.pc = "evaluate"]

EvaluateOf(l) ==
    IF InBand(l.result_count)
    THEN [l EXCEPT !.status = Status("Success", l.result_count, ""), !.pc = "after_loop"]
    ELSE LET tolerance == IF l.result_count < target_min_comps
                          THEN Loosen(l.initial_tolerance_percent)
                          ELSE Tighten(l.initial_tolerance_percent)
         IN  [l EXCEPT !.initial_tolerance_percent = tolerance,
                       !.criteria = AreaWindows(l.criteria, l.subject, tolerance),
                       !.pc = "loop_head"]

AfterLoopOf(l) ==
    [l EXCEPT !.status = IF l.iteration_count >= max_iterations
                         THEN Status("Partial Success", l.result_count, "")
                         ELSE @,
              !.pc = "returned"]

LocalsOfFirstRun(rs, r) == rs[1]

\* The frame a run's step reads: its own.
Locals(rs, r) == rs[r]

PairInit ==
    /\ pc = "pair"
    /\ NoRun
    /\ subject = PairSubject(1)
    /\ comparable_properties = <<>>
    /\ call = None
    /\ result = None
    /\ runs = [r \in Runs |-> StartRun(PairSubject(r))]
    /\ task = None

PairLoopHead ==
    \E r \in Runs :
        /\ runs[r].pc = "loop_head"
        /\ runs' = [runs EXCEPT ![r] = LoopHeadOf(Locals(runs, r))]
        /\ UNCHANGED <<pc, run_vars, call, result, task>>

PairApply ==
    \E r \in Runs :
        /\ runs[r].pc = "apply"
        /\ runs' = [runs EXCEPT ![r] = ApplyOf(Locals(runs, r))]
        /\ UNCHANGED <<pc, run_vars, call, result, task>>

PairCount ==
    \E r \in Runs, c \in FeedbackCounts :
        /\ runs[r].pc = "count"
        /\ runs' = [runs EXCEPT ![r] = CountOf(Locals(runs, r), c)]
        /\ UNCHANGED <<pc, run_vars, call, result, task>>

PairEvaluate ==
    \E r \in Runs :
        /\ runs[r].pc = "evaluate"
        /\ runs' = [runs EXCEPT ![r] = EvaluateOf(Locals(runs, r))]
        /\ UNCHANGED <<pc, run_vars, call, result, task>>

PairAfterLoop ==
    \E r \in Runs :
        /\ runs[r].pc = "after_loop"
        /\ runs' = [runs EXCEPT ![r] = AfterLoopOf(Locals(runs, r))]
        /\ UNCHANGED <<pc, run_vars, call, result, task>>

PairNext ==
    \/ PairLoopHead
    \/ PairApply
    \/ PairCount
    \/ PairEvaluate
    \/ PairAfterLoop

SpecPair == PairInit /\ [][PairNext]_vars

\* ------------------------------------------- area windows at two tolerances
\* The applied window of an area attribute: the bounds computed at a
\* tolerance, the min side snapped with the lower-bound policy and the max
\* side with the upper-bound policy.
SnappedWindow(subject_area, tolerance_percent, boundary_options) ==
    LET bounds == calculate_filter_bounds(subject_area, tolerance_percent, FALSE)
    IN  [min |-> Snap(bounds[1], boundary_options, FALSE),
         max |-> Snap(bounds[2], boundary_options, TRUE)]

\* The tolerances the loop can hold: 20 moved by steps of 5, at most five
\* times up, never below 5.
LoopTolerances ==
    {t \in min_tolerance_percent ..
             (start_tolerance_percent + max_iterations * tolerance_step_percent) :
        t % tolerance_step_percent = 0}

\* Subject areas drawn: every small area for the small lists, and areas in
\* steps of 25 m2 across and beyond the floor-area list.
MaxArea == 40

AreaValues == 1..MaxArea \cup {25 * k : k \in 1..MaxArea}

AreaLists == (AscendingLists \ {<<>>}) \cup {floor_area_options, land_area_options}

WidenInit ==
    /\ HelperInit
    /\ call \in [subject_area : AreaValues, t1 : LoopTolerances, t2 : LoopTolerances,
                  boundary_options : AreaLists]
    /\ call.t1 <= call.t2

\* The window computed and snapped at both tolerances.
CallWindows ==
    /\ pc = "call"
    /\ result' = [narrow |-> SnappedWindow(call.subject_area, call.t1,
                                           call.boundary_options),
                  wide   |-> SnappedWindow(call.subject_area, call.t2,
                                           call.boundary_options)]
    /\ pc' = "returned"
    /\ UNCHANGED <<run_vars, call, runs, task>>

WidenNext == CallWindows

SpecWiden == WidenInit /\ [][WidenNext]_vars

\* ------------------------------------------------------------------- login
\* login_to_relab.  task holds the loop variable attempt, the number of
\* page.goto calls to the login page that returned, the reason logged for
\* each failed attempt, and how the call ended:
\*   "returned"      the return after the redirect,
\*   "login_failed"  Exception("Login failed after 5 attempts."),
\*   "propagated"    an exception of page.goto or page.wait_for_timeout raised
\*                   outside the try body.
max_retries == 5

\* What can make an attempt fail: a time-out of the wait for the username
\* input, of a fill, of the click, of the wait for the redirect, or the login
\* button missing.
AttemptFailures == {"username", "fill", "no_button", "click", "redirect"}

\* No run of the analysis is under way.
AtRest ==
    /\ NoRun
    /\ subject = CHOOSE s \in Subjects : s.land_title = ""
    /\ comparable_properties = <<>>
    /\ call = None
    /\ result = None
    /\ runs = None

LoginInit ==
    /\ AtRest
    /\ pc = "login_goto"
    /\ task = [attempt |-> 0, navigations |-> 0, failures |-> <<>>, outcome |-> "running"]

\* await page.goto("https://relab.co.nz/login"), before the loop and
\* outside the try; then the loop starts with attempt = 1.
LoginGoto ==
    /\ pc = "login_goto"
    /\ \/ /\ task' = [task EXCEPT !.navigations = @ + 1, !.attempt = 1]
          /\ pc' = "login_attempt"
       \/ /\ task' = [task EXCEPT !.outcome = "propagated"]
          /\ pc' = "login_done"
    /\ UNCHANGED <<run_vars, call, result, runs>>

\* The try body of one attempt: the redirect arrives and the function
\* returns, or some step raises and the handler takes over.
LoginAttempt ==
    /\ pc = "login_attempt"
    /\ \/ /\ task' = [task EXCEPT !.outcome = "returned"]
          /\ pc' = "login_done"
       \/ \E e \in AttemptFailures :
             /\ task' = [task EXCEPT !.failures = Append(@, e)]
             /\ pc' = "login_except"
    /\ UNCHANGED <<run_vars, call, result, runs>>

LoginExceptWithoutGoto ==
    /\ pc = "login_except"
    /\ IF task.attempt < max_retries
       THEN \/ /\ task' = [task EXCEPT !.attempt = @ + 1]
               /\ pc' = "login_attempt"
            \/ /\ task' = [task EXCEPT !.outcome = "propagated"]
               /\ pc' = "login_done"
       ELSE /\ task' = [task EXCEPT !.outcome = "login_failed"]
            /\ pc' = "login_done"
    /\ UNCHANGED <<run_vars, call, result, runs>>

\* except Exception: before the last attempt wait 2 s and go to the login
\* page again (either call may raise, and nothing catches that), then the
\* next attempt; after the last attempt raise "Login failed after 5 attempts.".
LoginExcept ==
    /\ pc = "login_except"
    /\ IF task.attempt < max_retries
       THEN \/ /\ task' = [task EXCEPT !.navigations = @ + 1, !.attempt = @ + 1]
               /\ pc' = "login_attempt"
            \/ /\ task' = [task EXCEPT !.outcome = "propagated"]
               /\ pc' = "login_done"
       ELSE /\ task' = [task EXCEPT !.outcome = "login_failed"]
            /\ pc' = "login_done"
    /\ UNCHANGED <<run_vars, call, result, runs>>

LoginNext == LoginGoto \/ LoginAttempt \/ LoginExcept

SpecLogin == LoginInit /\ [][LoginNext]_vars

\* ------------------------------------------------------ run_playwright_task
\* task holds what the call has done to the browser session: whether the
\* persistent context and the page exist, how often each was closed, the step
\* whose exception the handler caught, the CMA status merged into the data,
\* whether the debug HTML was written, and how the call ended:
\*   "success"     return {"success": True, ...},
\*   "failure"     return {"success": False, "error": ...},
\*   "propagated"  an exception left the function.
TaskSteps == <<"login", "search", "extract", "cma">>

\* CMA_Status kinds perform_cma_analysis can return; it catches its own
\* exceptions and returns "Failed".
CmaKinds == {"Success", "Partial Success", "Completed", "Failed"}

\* Addresses a request can carry.
Addresses == {"12 Example Street, Auckland", "3/45 Sample Road, Wellington"}

\* What the caught exception says (the "error" of the returned record): the
\* message login_to_relab raises after its last attempt, or the time-out of
\* an adapter call.
StepErrors(step) ==
    IF step = "login" THEN {"Login failed after 5 attempts.", "Timeout"}
    ELSE {"Timeout"}

TaskInit ==
    /\ NoRun
    /\ subject = CHOOSE s \in Subjects : s.land_title = ""
    /\ comparable_properties = <<>>
    /\ call \in [address : Addresses]
    /\ result = None
    /\ runs = None
    /\ pc = "task_launch"
    /\ task = [browser |-> "none", page |-> "none", browser_closes |-> 0,
               page_closes |-> 0, step |-> 0, caught |-> "", cma |-> "",
               debug_html |-> "", error |-> "", pending |-> "",
               outcome |-> "running"]

\* browser = await p.firefox.launch_persistent_context(...), outside the try.
TaskLaunch ==
    /\ pc = "task_launch"
    /\ \/ /\ task' = [task EXCEPT !.browser = "open"]
          /\ pc' = "task_new_page"
       \/ /\ task' = [task EXCEPT !.outcome = "propagated"]
          /\ pc' = "task_done"
    /\ UNCHANGED <<run_vars, call, result, runs>>

\* page = await browser.new_page(), outside the try.
TaskNewPage ==
    /\ pc = "task_new_page"
    /\ \/ /\ task' = [task EXCEPT !.page = "open", !.step = 1]
          /\ pc' = "task_try"
       \/ /\ task' = [task EXCEPT !.outcome = "propagated"]
          /\ pc' = "task_done"
    /\ UNCHANGED <<run_vars, call, result, runs>>

\* The try body, one awaited step at a time: login, search, extraction, CMA
\* analysis.  After the last step the return value is pending and the finally
\* clause runs.
TaskStep ==
    /\ pc = "task_try"
    /\ \/ /\ task.step < Len(TaskSteps)
          /\ task' = [task EXCEPT !.step = @ + 1]
          /\ pc' = "task_try"
       \/ /\ task.step = Len(TaskSteps)
          /\ \E k \in CmaKinds :
                task' = [task EXCEPT !.cma = k, !.pending = "success"]
          /\ pc' = "task_close_page"
       \/ /\ \E e \in StepErrors(TaskSteps[task.step]) :
                task' = [task EXCEPT !.caught = TaskSteps[task.step], !.error = e]
          /\ pc' = "task_except"
    /\ UNCHANGED <<run_vars, call, result, runs>>

\* except Exception: the debug HTML is written inside a try of its own; the
\* return value is pending and the finally clause runs.
TaskExcept ==
    /\ pc = "task_except"
    /\ \E saved \in {"written", "failed"} :
          task' = [task EXCEPT !.debug_html = saved, !.pending = "failure"]
    /\ pc' = "task_close_page"
    /\ UNCHANGED <<run_vars, call, result, runs>>

\* finally: await page.close().  An exception here leaves the function in
\* place of the pending return, and browser.close() is not reached.
TaskClosePage ==
    /\ pc = "task_close_page"
    /\ \/ /\ task' = [task EXCEPT !.page = "closed", !.page_closes = @ + 1]
          /\ pc' = "task_close_browser"
       \/ /\ task' = [task EXCEPT !.outcome = "propagated"]
          /\ pc' = "task_done"
    /\ UNCHANGED <<run_vars, call, result, runs>>

\* finally: await browser.close(); then the pending return takes place.
TaskCloseBrowser ==
    /\ pc = "task_close_browser"
    /\ \/ /\ task' = [task EXCEPT !.browser = "closed", !.browser_closes = @ + 1,
                                  !.outcome = task.pending]
       \/ /\ task' = [task EXCEPT !.outcome = "propagated"]
    /\ pc' = "task_done"
    /\ UNCHANGED <<run_vars, call, result, runs>>

TaskNext ==
    \/ TaskLaunch \/ TaskNewPage \/ TaskStep \/ TaskExcept
    \/ TaskClosePage \/ TaskCloseBrowser

SpecTask == TaskInit /\ [][TaskNext]_vars

\* =================================================================== claims
StatusKind == cma_data.CMA_Status.kind

\* The loop has ended and the run has not yet returned.
PostLoop == pc \in {"after_loop", "extract", "pause", "benchmarks"}
\* The post-loop status update has run and the run has not yet returned.
PastStatusUpdate == pc \in {"extract", "pause", "benchmarks"}
\* The loop ended on an in-band count (break) / on the iteration cap.
Converged == InBand(result_count)
Exhausted == iteration_count = max_iterations /\ ~InBand(result_count)

\* C1 (as claimed): once the loop has ended on an in-band count, whichever
\* iteration 1..5 read it, the run's status is the Success status (and so is
\* never Partial Success).
C1_ConvergedIsSuccess ==
    (PastStatusUpdate /\ Converged) => StatusKind = "Success"

\* C2 (as claimed): a run without faults whose five counts all missed the band
\* returns status Partial Success and iteration count 5.
C2_ExhaustedReturnsPartialSuccess ==
    (pc = "done" /\ faults = 0 /\ Exhausted) =>
        /\ StatusKind = "Partial Success"
        /\ cma_data.CMA_Iterations_Performed = max_iterations

\* C3: when the loop ends on an in-band count that was preceded only by
\* below-band counts, there were n = iteration_count - 1 < 5 of them, the
\* tolerance was widened exactly n times by +5 (20 + 5n), the loop is in its
\* Converged state (status Success, carrying that count, when the loop is left)
\* and exactly n + 1 counts were consumed, then and for the rest of the run.
C3_WidenThenConverge ==
    (PostLoop /\ Converged /\ narrowed = 0) =>
        /\ widened = iteration_count - 1
        /\ widened < max_iterations
        /\ initial_tolerance_percent = start_tolerance_percent + tolerance_step_percent * widened
        /\ counts_read = widened + 1
        /\ pc = "after_loop" => /\ StatusKind = "Success"
                                /\ cma_data.CMA_Status.count = result_count

\* Counts 2, 2, 8: two widenings (20 -> 25 -> 30), converged on iteration 3.
C3_Witness ==
    /\ pc = "after_loop"
    /\ result_count = 8
    /\ widened = 2 /\ narrowed = 0
    /\ iteration_count = 3
    /\ initial_tolerance_percent = 30
    /\ counts_read = 3
    /\ StatusKind = "Success"

\* C4: an above-band count replaces the tolerance by max(5, tolerance - 5), and
\* the tolerance is never below 5 in any state of the run.
C4_NarrowFlooredAtMinimum ==
    /\ [](initial_tolerance_percent >= 5)
    /\ [][(pc = "evaluate" /\ result_count > target_max_comps) =>
            initial_tolerance_percent' =
                IF initial_tolerance_percent - 5 >= 5
                THEN initial_tolerance_percent - 5 ELSE 5]_vars

\* Four narrowings from 20: the floor has taken effect.
C4_Witness ==
    /\ narrowed = 4
    /\ widened = 0
    /\ initial_tolerance_percent = 5

ApplySteps == {"land_title", "floor_area", "bedrooms", "bathrooms", "year_built", "land_area"}

\* C5 (as claimed): an apply step in which some dropdown's filter fails does not
\* end the run: the run is not Failed, the setting the run holds for that
\* dropdown stays as it was, and the iteration moves on to the next attribute
\* (or to the count query).
C5_AttributeFailureNotFatal ==
    [][(pc \in ApplySteps /\ fault_log' # {}) =>
          /\ pc' \in (ApplySteps \cup {"count"})
          /\ cma_data'.CMA_Status.kind # "Failed"
          /\ \A f \in fault_log' : prev'[f.dropdown] = prev[f.dropdown]]_vars

\* C6 (as claimed): a run without faults that exhausted the iteration cap does
\* not return Failed.
C6_ExhaustionNeverFailed ==
    (pc = "done" /\ faults = 0 /\ Exhausted) => StatusKind # "Failed"

\* C7: the record a run returns carries one of the terminal statuses Success,
\* Partial Success or Failed, never the initial Not Started.
C7_ReturnedStatusIsTerminal ==
    pc = "done" => StatusKind \in {"Success", "Partial Success", "Failed"}

\* A run that raised inside the loop has returned.
C7_Witness ==
    /\ pc = "done"
    /\ iteration_count = 3
    /\ StatusKind = "Failed"
    /\ cma_data.CMA_Status.detail = "land title"

BenchmarksUntouched ==
    /\ cma_data.CMA_Benchmark_1_Avg_Sale_CV_Ratio = None
    /\ cma_data.CMA_Benchmark_2_Avg_Floor_PerSqm = None
    /\ cma_data.CMA_Benchmark_3_Avg_Land_PerSqm = None
    /\ cma_data.CMA_Benchmark_1_Estimated_Sale = "N/A"
    /\ cma_data.CMA_Benchmark_2_Estimated_Value_via_Floor = "N/A"
    /\ cma_data.CMA_Benchmark_3_Estimated_Value_via_Land = "N/A"
    /\ cma_data.CMA_Benchmark_1_Valuation = None
    /\ cma_data.CMA_Benchmark_2_Valuation = None
    /\ cma_data.CMA_Benchmark_3_Valuation = None

\* C8: whenever the status is Failed, the three benchmark averages and their
\* projected values are still at their initial "not available" values.
C8_FailedHasNoBenchmark ==
    StatusKind = "Failed" => BenchmarksUntouched

\* A run that ended Failed after comparables had been extracted and recorded.
C8_Witness ==
    /\ pc = "done"
    /\ StatusKind = "Failed"
    /\ properties # <<>>
    /\ cma_data.CMA_Comparable_Count = Len(properties)

\* C9 (as claimed): the benchmark step never turns the status into Failed.
C9_BenchmarkStepNeverFails ==
    [][pc = "benchmarks" => cma_data'.CMA_Status.kind # "Failed"]_vars

\* The pairs <<price, denominator>> of the comparables that satisfy a
\* condition, in list order.
Contributions(field, Cond(_, _)) ==
    LET cp  == comparable_properties
        idx == {i \in 1..Len(cp) : Cond(cp[i].price_nzd, cp[i][field])}
        kth(k) == CHOOSE i \in idx : Cardinality({j \in idx : j < i}) = k - 1
    IN  [k \in 1..Cardinality(idx) |->
            <<Val(cp[kth(k)].price_nzd), Val(cp[kth(k)][field])>>]

PresentAndPositiveDenominator(price, den) ==
    price # None /\ den # None /\ Val(den) > 0

NonZeroPriceAndPositiveDenominator(price, den) ==
    price # None /\ Val(price) # 0 /\ den # None /\ Val(den) > 0

RatesCollected == pc \in {"compute", "done"} /\ comparable_properties # <<>>

BenchmarksComputed == pc = "done" /\ comparable_properties # <<>>

\* A benchmark is reported when its average and its projected value have both
\* left the markers cma_data was constructed with (None and "N/A").
Reported(average, estimate) == ~IsNone(average) /\ estimate # "N/A"
NotAvailable(average, estimate) == IsNone(average) /\ estimate = "N/A"

ReportedIff(average, estimate, rates, denominator) ==
    /\ Reported(average, estimate) <=> (rates # <<>> /\ denominator > 0)
    /\ ~(rates # <<>> /\ denominator > 0) => NotAvailable(average, estimate)

SaleCvSum == RatSum(Contributions("cv_nzd", NonZeroPriceAndPositiveDenominator))
SaleCvCount == Len(Contributions("cv_nzd", NonZeroPriceAndPositiveDenominator))

BenchmarkAReported ==
    BenchmarksComputed /\ ~IsNone(cma_data.CMA_Benchmark_1_Avg_Sale_CV_Ratio)

\* |a - 10000 * sum / count| <= 1/2 for the stored ratio a, in ten-thousandths
WithinHalfUnit(a) ==
    LET x == a * SaleCvCount * SaleCvSum[2] - 10000 * SaleCvSum[1]
    IN  2 * (IF x < 0 THEN -x ELSE x) <= SaleCvCount * SaleCvSum[2]

IsMeanTimesCapitalValue ==
    /\ WithinHalfUnit(Val(cma_data.CMA_Benchmark_1_Avg_Sale_CV_Ratio))
    /\ cma_data.CMA_Benchmark_1_Valuation =
           Some(FormatDollars(<<SaleCvSum[1] * subject_cv(subject),
                                SaleCvSum[2] * SaleCvCount>>))

ExampleRun ==
    /\ BenchmarkAReported
    /\ comparable_properties = ExampleComps
    /\ subject.capital_value = Some(480000)

NumericTexts == {<<"1", "8", "0">>, <<" ", "9", "5", " ">>, <<"-", "1">>, <<"0">>,
                 <<"4", ".", "0">>}

TextNumber(t) ==
    CASE t = <<"1", "8", "0">> -> 180
      [] t = <<" ", "9", "5", " ">> -> 95
      [] t = <<"-", "1">> -> -1
      [] t = <<"0">> -> 0
      [] t = <<"4", ".", "0">> -> 4

IsNumeric(v) == v.type = "int" \/ (v.type = "str" /\ v.chars \in NumericTexts)
NumberOf(v) == IF v.type = "int" THEN v.value ELSE TextNumber(v.chars)
IsAbsent(v) == v = PyNone \/ v = PyStr(<<>>)
IsPositive(v) == IsNumeric(v) /\ NumberOf(v) > 0

BoundsReturned == pc = "returned" /\ "tolerance_percent" \in DOMAIN call

\* C13: calculate_filter_bounds returns (None, None), at every tolerance and in
\* either rounding mode, when the value is absent, zero, negative or not
\* numeric, and a pair of numbers when the value is positive.
C13_NoWindowUnlessPositive ==
    BoundsReturned =>
        LET v == call.subject_value
        IN  /\ ~IsPositive(v) => result[1] = <<None, None>>
            /\ IsPositive(v) => ~IsNone(result[1][1]) /\ ~IsNone(result[1][2])

\* The parsers' unknown sentinel gives no window; so does a non-numeric text.
C13_Witness ==
    /\ BoundsReturned
    /\ call.subject_value = PyInt(-1)
    /\ call.is_integer
    /\ call.tolerance_percent = 20
    /\ result[1] = <<None, None>>

Width(window) == Val(window[2]) - Val(window[1])

\* C14: without rounding, a positive value lies inside its window, and the
\* window's width grows with the tolerance.
C14_WindowContainsValueAndGrows ==
    (BoundsReturned /\ ~call.is_integer /\ IsPositive(call.subject_value)) =>
        LET value == NumberOf(call.subject_value) * 100
            t1 == call.tolerance_percent
            t2 == call.other_tolerance
        IN  /\ Val(result[1][1]) <= value /\ value <= Val(result[1][2])
            /\ t1 < t2 => Width(result[1]) < Width(result[2])
            /\ t1 = t2 => Width(result[1]) = Width(result[2])
            /\ t1 > t2 => Width(result[1]) > Width(result[2])

\* 10 at 5 percent and at 20 percent: [9.5, 10.5] and [8, 12].
C14_Witness ==
    /\ BoundsReturned
    /\ call.subject_value = PyInt(10)
    /\ ~call.is_integer
    /\ call.tolerance_percent = 5 /\ call.other_tolerance = 20
    /\ result = << <<Some(950), Some(1050)>>, <<Some(800), Some(1200)>> >>

\* C15: with rounding, min is a whole number at or below the unrounded lower
\* bound and max a whole number at or above the unrounded upper bound.
C15_RoundedWindowContainsUnrounded ==
    (BoundsReturned /\ call.is_integer /\ IsPositive(call.subject_value)) =>
        LET value == NumberOf(call.subject_value)
            t == call.tolerance_percent
        IN  /\ Val(result[1][1]) % 100 = 0
            /\ Val(result[1][2]) % 100 = 0
            /\ Val(result[1][1]) <= value * (100 - t)
            /\ Val(result[1][2]) >= value * (100 + t)

\* 3 at 5 percent: [2.85, 3.15] rounds to [2, 4].
C15_Witness ==
    /\ BoundsReturned
    /\ call.subject_value = PyInt(3)
    /\ call.is_integer
    /\ call.tolerance_percent = 5
    /\ result[1] = <<Some(200), Some(400)>>

\* -------------------------------------------- find_closest_boundary_option
Snapped == pc = "returned" /\ "boundary_options" \in DOMAIN call

Members == {call.boundary_options[i] : i \in 1..Len(call.boundary_options)}
AtOrAbove(x) == {m \in Members : m * 100 >= x}
AtOrBelow(x) == {m \in Members : m * 100 <= x}

\* -1, the value the min dropdowns show as "Any"
NoLowerLimit == -1

LowerWidens ==
    \/ result.lower = Some(NoLowerLimit)
    \/ Val(result.lower) \in Members /\ Val(result.lower) * 100 <= call.lo

\* The whole values inside the computed window.
InsideWindow == {v \in 0..(10 * MaxOptions + 10) : call.lo <= v * 100 /\ v * 100 <= call.hi}

InsideSnapped(v) ==
    /\ result.lower = Some(NoLowerLimit) \/ Val(result.lower) <= v
    /\ v <= Val(result.upper)

\* C17 (as claimed): on a non-empty ascending list the snapped lower limit is
\* "no lower limit" or a member <= lo and the snapped upper limit is a member
\* >= hi, so every value inside [lo, hi] is inside the snapped window.
C17_SnapOnlyWidens ==
    (Snapped /\ call.boundary_options # <<>>) =>
        /\ LowerWidens
        /\ Val(result.upper) \in Members /\ Val(result.upper) * 100 >= call.hi
        /\ \A v \in InsideWindow : InsideSnapped(v)

\* C17 (amended): the snapped lower limit is "no lower limit" or a member
\* <= lo; the snapped upper limit is a member >= hi when the list has one and
\* the list's maximum, below hi, when it has none; every value inside
\* [lo, hi] that does not exceed the list's maximum is inside the snapped
\* window.
C17_SnapWidensUpToListMaximum ==
    (Snapped /\ call.boundary_options # <<>>) =>
        /\ LowerWidens
        /\ Val(result.upper) \in Members
        /\ IF AtOrAbove(call.hi) # {}
           THEN Val(result.upper) * 100 >= call.hi
           ELSE Val(result.upper) = SetMax(Members) /\ Val(result.upper) * 100 < call.hi
        /\ \A v \in InsideWindow : v <= SetMax(Members) => InsideSnapped(v)

\* A window reaching past the last option: [15, 25] on <<10, 20>> snaps to
\* [10, 20].
C17_Witness ==
    /\ Snapped
    /\ call.boundary_options = <<10, 20>>
    /\ call.lo = 1500 /\ call.hi = 2500
    /\ result = [lower |-> Some(10), upper |-> Some(20)]

\* ------------------------------------------------------------- the parsers
Parsed == pc = "returned" /\ "text" \in DOMAIN call

\* The characters of the text given to the parsers (None has none).
TextChars == IF call.text = PyNone THEN <<>> ELSE call.text.chars

HasDigit == \E i \in 1..Len(TextChars) : IsDigit(TextChars[i])
HasNumberCharacter == \E i \in 1..Len(TextChars) : InNumberClass(TextChars[i])

\* C18: no parser raises, whatever the text (None, empty, a lone "." or ",",
\* "1.2.3"), and a text that cannot be parsed gives the unknown sentinel: -1
\* for the numeric fields, the empty string for the title.
C18_ParsersNeverRaise ==
    Parsed =>
        /\ ~result.area.raised /\ ~result.land_title.raised
        /\ ~result.bed_bath.raised /\ ~result.year_built.raised
        /\ ~HasDigit => /\ result.area = Returns(-1)
                        /\ result.bed_bath = Returns(-1)
                        /\ result.year_built = Returns(-1)
        /\ ~HasNumberCharacter => result.land_title = Returns(<<>>)

\* The first numeric token of the text, and the text that follows it.
TokenStart == SetMin({i \in 1..Len(TextChars) : InNumberClass(TextChars[i])})
TokenEnd ==
    SetMax({j \in TokenStart..Len(TextChars) :
               \A k \in TokenStart..j : InNumberClass(TextChars[k])})
Token == SubSeq(TextChars, TokenStart, TokenEnd)
AfterToken == lower(strip(SubSeq(TextChars, TokenEnd + 1, Len(TextChars))))

StartsWith(text, prefix) ==
    Len(text) >= Len(prefix) /\ SubSeq(text, 1, Len(prefix)) = prefix

\* The token is a number: digits, "," between them allowed, at most one ".".
TokenIsNumber ==
    /\ HasNumberCharacter
    /\ \E i \in 1..Len(Token) : IsDigit(Token[i])
    /\ Cardinality({i \in 1..Len(Token) : Token[i] = "."}) <= 1

\* The token's value times scale, to the nearest whole number.
TokenValue(scale) ==
    LET plain == SelectSeq(Token, NotComma)
        dot == {i \in 1..Len(plain) : plain[i] = "."}
        decimals == IF dot = {} THEN 0 ELSE Len(plain) - SetMax(dot)
    IN  RoundHalfEven(<<DigitsValue(SelectSeq(plain, IsDigit)) * scale, Pow10(decimals)>>)

UnitIsHectares == StartsWith(AfterToken, <<"h", "a">>)
UnitIsSquareMetres ==
    StartsWith(AfterToken, <<"m", "2">>) \/ StartsWith(AfterToken, <<"m", "^2">>)

\* The stripped text before the first numeric token, stripped again.
BeforeToken ==
    LET t == strip(TextChars)
        first == SetMin({i \in 1..Len(t) : InNumberClass(t[i])})
    IN  strip(SubSeq(t, 1, first - 1))

\* C19: parse_area takes the first numeric token and applies its unit:
\* "1.234 ha" is 12340 and "180 m2" (superscript two) is 180; parse_land_title
\* returns the trimmed text before the first numeric token: "Freehold" for
\* "Freehold 450 m2", "" for "".
C19_FirstTokenAndUnit ==
    Parsed =>
        /\ (TokenIsNumber /\ UnitIsHectares) => result.area = Returns(TokenValue(10000))
        /\ (TokenIsNumber /\ ~Contains(lower(TextChars), <<"h", "a">>)) =>
               result.area = Returns(TokenValue(1))
        /\ HasNumberCharacter => result.land_title = Returns(BeforeToken)
        /\ call.text = PyStr(<<"1", ".", "2", "3", "4", " ", "h", "a">>) =>
               result.area = Returns(12340)
        /\ call.text = PyStr(<<"1", "8", "0", " ", "m", "^2">>) =>
               result.area = Returns(180)
        /\ call.text = PyStr(<<"F", "r", "e", "e", "h", "o", "l", "d", " ", "4", "5",
                               "0", " ", "m", "^2">>) =>
               result.land_title = Returns(<<"F", "r", "e", "e", "h", "o", "l", "d">>)
        /\ call.text = PyStr(<<>>) => result.land_title = Returns(<<>>)

\* "1.234 ha" parsed.
C19_Witness ==
    /\ Parsed
    /\ call.text = PyStr(<<"1", ".", "2", "3", "4", " ", "h", "a">>)
    /\ result.area = Returns(12340)
    /\ result.land_title = Returns(<<>>)

\* C20: when the unit after the first numeric token is m2 (or m with a
\* superscript two), parse_area returns the token's value as it is, whatever
\* words stand elsewhere in the text; the value is multiplied by 10,000 only
\* when the unit is hectares.
C20_SquareMetresNeverMultiplied ==
    (Parsed /\ TokenIsNumber) =>
        /\ UnitIsSquareMetres => result.area = Returns(TokenValue(1))
        /\ ~UnitIsHectares => result.area = Returns(TokenValue(1))

\* C21: for a non-empty text without a numeric token parse_land_title returns
\* the whole trimmed text; it returns the empty string only when the text is
\* empty.
C21_NoTokenReturnsWholeText ==
    (Parsed /\ call.text # PyNone /\ ~HasNumberCharacter) =>
        /\ result.land_title = Returns(strip(TextChars))
        /\ result.land_title = Returns(<<>>) => strip(TextChars) = <<>>

\* ------------------------------------------------------ adapter time-outs
\* An adapter call of the step being taken failed (timed out).
CallTimedOut(at) == pc = at /\ faults' > faults

\* C22: an adapter call that times out is retried at its call site before it
\* is escalated; a count query that timed out is asked again and the decision
\* never acts on a count put in its place; a failed extraction is tried
\* again before the run gives up.
C22_TimedOutCallIsRetried ==
    [][ /\ CallTimedOut("count") => pc' = "count"
        /\ CallTimedOut("extract") => pc' = "extract" ]_vars

\* ------------------------------------------------------------ termination
\* C23: every run terminates: the loop makes between 1 and 5 iterations, and
\* as long as every adapter call returns or times out the run returns its
\* result, waiting for nothing else.
C23_RunTerminates ==
    /\ [](PostLoop => (1 <= iteration_count /\ iteration_count <= max_iterations))
    /\ <>(pc = "done")

\* ------------------------------------------------------ interleaved runs
\* What a run carries out of its loop.
Outcome(l) ==
    [status |-> l.status, tolerance |-> l.initial_tolerance_percent,
     criteria |-> l.criteria, prev |-> l.prev, iterations |-> l.iteration_count]

StepOf(l) ==
    CASE l.pc = "loop_head"  -> LoopHeadOf(l)
      [] l.pc = "apply"      -> ApplyOf(l)
      [] l.pc = "evaluate"   -> EvaluateOf(l)
      [] l.pc = "after_loop" -> AfterLoopOf(l)

RECURSIVE Alone(_, _)
\* A run taken from l to its return with nothing else running, the adapter
\* answering its count queries with feedback, in order.
Alone(l, feedback) ==
    IF l.pc = "returned" THEN l
    ELSE IF l.pc = "count"
         THEN IF feedback = <<>> THEN l
              ELSE Alone(CountOf(l, Head(feedback)), Tail(feedback))
         ELSE Alone(StepOf(l), feedback)

\* The records a run can move to from l by a step of its own.
OwnSteps(l) ==
    IF l.pc = "count" THEN {CountOf(l, c) : c \in FeedbackCounts}
    ELSE IF l.pc = "returned" THEN {}
    ELSE {StepOf(l)}

LowerPolicy(bound, options) == Snap(bound, options, FALSE)
UpperPolicy(bound, options) == Snap(bound, options, TRUE)

HasOptionAtLeast(bound, options) ==
    \E i \in 1..Len(options) : options[i] * 100 >= Val(bound)

SnappedOutward(lo, hi, omin, omax, options) ==
    (~IsNone(lo) /\ ~IsNone(hi)) =>
        /\ omin = LowerPolicy(lo, options)
        /\ omax = UpperPolicy(hi, options)
        /\ HasOptionAtLeast(hi, options) => Val(omax) * 100 >= Val(hi)

\* C25: in every iteration each attribute's min side is snapped with the
\* lower-bound policy and its max side with the upper-bound policy, so no max
\* side is snapped below its computed max while a larger option exists.
C25_MaxSidesSnappedUpward ==
    /\ pc = "floor_area" =>
          SnappedOutward(criteria.floor_area_min, criteria.floor_area_max,
                         closest_floor_area_min_option, closest_floor_area_max_option,
                         floor_area_options)
    /\ pc = "bedrooms" =>
          SnappedOutward(Units(criteria.bedrooms_min), Units(criteria.bedrooms_max),
                         closest_bedroom_min_option, closest_bedroom_max_option,
                         bedroom_options)
    /\ pc = "bathrooms" =>
          SnappedOutward(Units(criteria.bathrooms_min), Units(criteria.bathrooms_max),
                         closest_bathroom_min_option, closest_bathroom_max_option,
                         bathroom_options)
    /\ pc = "year_built" =>
          SnappedOutward(Units(criteria.year_built_min), Units(criteria.year_built_max),
                         closest_year_built_min_option, closest_year_built_max_option,
                         year_built_options)
    /\ pc = "land_area" =>
          SnappedOutward(criteria.land_area_min, criteria.land_area_max,
                         closest_land_area_min_option, closest_land_area_max_option,
                         land_area_options)

\* ------------------------------------------------------ applied windows
\* v lies in the window whose sides are the options omin and omax; the lower
\* sentinel of the snapper stands for no lower limit.
WindowContains(omin, omax, v) == Val(omin) <= v /\ v <= Val(omax)

Largest(options) == options[Len(options)]

NoApplyFollows ==
    \/ pc = "evaluate" /\ (InBand(result_count) \/ iteration_count >= max_iterations)
    \/ pc = "loop_head" /\ iteration_count >= max_iterations
    \/ PostLoop

\* C27: the filter settings recorded in the result are the criteria of the
\* last adapter application: after the last apply step of a run the criteria
\* do not change any more, and the record is built from them.
C27_RecordedSettingsWereApplied ==
    /\ [][NoApplyFollows => criteria' = criteria]_vars
    /\ [](~IsNone(cma_data.CMA_Filter_Settings_Used) =>
            cma_data.CMA_Filter_Settings_Used = Some(FilterSettings(subject, criteria)))

\* ------------------------------------------------------ frame of the loop
InLoop == pc \in ApplySteps \cup {"loop_head", "count", "evaluate"}

RoomAndYearWindows(crit) ==
    <<crit.bedrooms_min, crit.bedrooms_max, crit.bathrooms_min, crit.bathrooms_max,
      crit.year_built_min, crit.year_built_max>>

\* C28: between iterations only the tolerance and the two area windows derived
\* from it change.  The bedroom, bathroom and build-year windows and the land
\* title keep their initial values through every widen and narrow step; the
\* tolerance and the area windows change in the decision of an iteration out
\* of the band and nowhere else in the loop; a converged iteration changes
\* neither the tolerance nor any window.
C28_OnlyToleranceAndAreaWindowsChange ==
    /\ [](InLoop =>
            RoomAndYearWindows(criteria) =
                <<Some(subject.bedrooms - 1), Some(subject.bedrooms + 1),
                  Some(subject.bathrooms - 1), Some(subject.bathrooms + 1),
                  Some(subject.year_built - 10), Some(subject.year_built + 10)>>)
    /\ [][InLoop =>
            /\ subject' = subject
            /\ RoomAndYearWindows(criteria') = RoomAndYearWindows(criteria)
            /\ criteria' = AreaWindows(criteria, subject, initial_tolerance_percent')
            /\ (pc # "evaluate" \/ InBand(result_count)) =>
                  /\ initial_tolerance_percent' = initial_tolerance_percent
                  /\ criteria' = criteria
            /\ pc = "evaluate" =>
                  /\ prev' = prev /\ sel' = sel
                  /\ iteration_count' = iteration_count]_vars

\* The third iteration is about to start after one widen and one narrow
\* step: the tolerance is back at 20 and the room and year windows are the
\* initial ones.
C28_Witness ==
    /\ pc = "loop_head"
    /\ iteration_count = 2
    /\ widened = 1 /\ narrowed = 1
    /\ initial_tolerance_percent = start_tolerance_percent
    /\ subject.bedrooms = 4
    /\ criteria.bedrooms_min = Some(3) /\ criteria.bedrooms_max = Some(5)
    /\ criteria.year_built_max = Some(2005)

\* ------------------------------------------------------ order of the steps
\* The steps that may follow each step of a run; a raised exception ends the
\* run from wherever it is.
Follows(at) ==
    {"done"} \cup
    CASE at = "loop_head"  -> {"land_title", "after_loop"}
      [] at = "land_title" -> {"floor_area"}
      [] at = "floor_area" -> {"bedrooms"}
      [] at = "bedrooms"   -> {"bathrooms"}
      [] at = "bathrooms"  -> {"year_built"}
      [] at = "year_built" -> {"land_area"}
      [] at = "land_area"  -> {"count"}
      [] at = "count"      -> {"evaluate"}
      [] at = "evaluate"   -> {"loop_head", "after_loop"}
      [] at = "after_loop" -> {"extract"}
      [] at = "extract"    -> {"pause"}
      [] at = "pause"      -> {"benchmarks"}
      [] OTHER             -> {}

OrderedSteps == DOMAIN [loop_head |-> 0, land_title |-> 0, floor_area |-> 0,
                        bedrooms |-> 0, bathrooms |-> 0, year_built |-> 0,
                        land_area |-> 0, count |-> 0, evaluate |-> 0,
                        after_loop |-> 0, extract |-> 0, pause |-> 0,
                        benchmarks |-> 0, done |-> 0]

max_tolerance_percent == start_tolerance_percent + max_iterations * tolerance_step_percent

PositiveWindow(value, lo, hi) ==
    value > 0 =>
        /\ lo = Some(value * (100 - initial_tolerance_percent))
        /\ hi = Some(value * (100 + initial_tolerance_percent))
        /\ 0 < Val(lo)
        /\ Val(lo) < Val(hi)

\* C30: in every state of the refinement loop the tolerance is a multiple of 5
\* between 5 and 45, so the computed window of a positive subject area has a
\* lower bound value * (1 - tolerance/100) that is strictly positive and
\* strictly below its upper bound.
C30_ToleranceInRange ==
    (InLoop \/ PostLoop) =>
        /\ initial_tolerance_percent % tolerance_step_percent = 0
        /\ min_tolerance_percent <= initial_tolerance_percent
        /\ initial_tolerance_percent <= max_tolerance_percent
        /\ PositiveWindow(subject.floor_area_sqm,
                          criteria.floor_area_min, criteria.floor_area_max)
        /\ PositiveWindow(subject.land_area_sqm,
                          criteria.land_area_min, criteria.land_area_max)

\* Five widen steps: the tolerance is 45 and the floor-area window of 180 m2
\* is [99, 261].
C30_Witness ==
    /\ pc = "loop_head"
    /\ widened = max_iterations
    /\ initial_tolerance_percent = max_tolerance_percent
    /\ subject.floor_area_sqm = 180
    /\ criteria.floor_area_min = Some(9900)
    /\ criteria.floor_area_max = Some(26100)

\* ------------------------------------------------------ non-empty windows
\* The window asked of the adapter is not empty: its min side is the
\* no-lower-limit value or does not exceed its max side.
NotEmpty(lo, hi, omin, omax) ==
    (~IsNone(lo) /\ ~IsNone(hi)) =>
        \/ Val(omin) = NoLowerLimit
        \/ Val(omin) <= Val(omax)

\* C31: in every iteration, for every attribute whose filter is applied, the
\* snapped min is 'no lower limit' or is <= the snapped max: the loop never
\* asks the adapter for a window with min > max.
C31_AppliedWindowNotEmpty ==
    /\ pc = "floor_area" =>
          NotEmpty(criteria.floor_area_min, criteria.floor_area_max,
                   closest_floor_area_min_option, closest_floor_area_max_option)
    /\ pc = "bedrooms" =>
          NotEmpty(criteria.bedrooms_min, criteria.bedrooms_max,
                   closest_bedroom_min_option, closest_bedroom_max_option)
    /\ pc = "bathrooms" =>
          NotEmpty(criteria.bathrooms_min, criteria.bathrooms_max,
                   closest_bathroom_min_option, closest_bathroom_max_option)
    /\ pc = "year_built" =>
          NotEmpty(criteria.year_built_min, criteria.year_built_max,
                   closest_year_built_min_option, closest_year_built_max_option)
    /\ pc = "land_area" =>
          NotEmpty(criteria.land_area_min, criteria.land_area_max,
                   closest_land_area_min_option, closest_land_area_max_option)

\* The narrowest window the loop reaches for a floor area above the last
\* option: 600 m2 at 5 percent, [570, 630], both sides snapped to 500.
C31_Witness ==
    /\ pc = "floor_area"
    /\ subject.floor_area_sqm = 600
    /\ initial_tolerance_percent = min_tolerance_percent
    /\ closest_floor_area_min_option = Some(500)
    /\ closest_floor_area_max_option = Some(500)

\* C32: for a fixed subject area and boundary list and tolerances t1 <= t2, the
\* snapped min at t2 is 'no lower limit' or <= the snapped min at t1, and the
\* snapped max at t2 is >= the snapped max at t1: widening never narrows the
\* applied window and narrowing never widens it.
C32_WiderToleranceWiderWindow ==
    pc = "returned" =>
        /\ \/ Val(result.wide.min) = NoLowerLimit
           \/ Val(result.wide.min) <= Val(result.narrow.min)
        /\ Val(result.wide.max) >= Val(result.narrow.max)

\* 175 m2 on the floor-area list: [150, 200] at 5 percent, [75, 300] at 45.
C32_Witness ==
    /\ pc = "returned"
    /\ call.subject_area = 175 /\ call.t1 = 5 /\ call.t2 = 45
    /\ call.boundary_options = floor_area_options
    /\ result.narrow = [min |-> Some(150), max |-> Some(200)]
    /\ result.wide = [min |-> Some(75), max |-> Some(300)]

\* ------------------------------------------------------ unknown attributes
unknown == -1

Unbounded(lo, hi) == IsNone(lo) /\ IsNone(hi)

\* C33: an attribute whose parsed subject value is the unknown value
\* contributes no filter: its window is unbounded in every iteration and in
\* the record, and its apply step asks the adapter for nothing.
C33_UnknownAttributeNotFiltered ==
    /\ []((InLoop \/ PostLoop) =>
            /\ subject.floor_area_sqm = unknown =>
                  Unbounded(criteria.floor_area_min, criteria.floor_area_max)
            /\ subject.land_area_sqm = unknown =>
                  Unbounded(criteria.land_area_min, criteria.land_area_max)
            /\ subject.bedrooms = unknown =>
                  Unbounded(criteria.bedrooms_min, criteria.bedrooms_max)
            /\ subject.bathrooms = unknown =>
                  Unbounded(criteria.bathrooms_min, criteria.bathrooms_max)
            /\ subject.year_built = unknown =>
                  Unbounded(criteria.year_built_min, criteria.year_built_max))
    /\ [][ /\ (pc = "floor_area" /\ subject.floor_area_sqm = unknown) =>
                (sel' = sel /\ prev' = prev /\ fault_log' = {})
           /\ (pc = "land_area" /\ subject.land_area_sqm = unknown) =>
                (sel' = sel /\ prev' = prev /\ fault_log' = {})
           /\ (pc = "bedrooms" /\ subject.bedrooms = unknown) =>
                (sel' = sel /\ prev' = prev /\ fault_log' = {})
           /\ (pc = "bathrooms" /\ subject.bathrooms = unknown) =>
                (sel' = sel /\ prev' = prev /\ fault_log' = {})
           /\ (pc = "year_built" /\ subject.year_built = unknown) =>
                (sel' = sel /\ prev' = prev /\ fault_log' = {}) ]_vars

\* C34: on every return path, the Failed ones included, the iteration count
\* of the returned record equals the number of iterations the run started.
C34_ReturnedIterationCount ==
    pc = "done" => cma_data.CMA_Iterations_Performed = iteration_count

\* C35: after any sequence of successful and failed filter applications the
\* value tracked for each dropdown (prev_*) is the option selected on the
\* adapter side, also when the click of an option succeeded and the wait that
\* follows it failed.
C35_TrackingMatchesAdapter ==
    (InLoop \/ PostLoop \/ pc = "done") =>
        \A d \in Dropdowns : prev[d] = sel[d]

\* ------------------------------------------------------------------ login
\* Attempts started so far: the failed ones and the one under way or
\* successful.
AttemptsMade ==
    Len(task.failures) + (IF pc = "login_attempt" \/ task.outcome = "returned" THEN 1 ELSE 0)

\* C36: login_to_relab makes at most 5 attempts; it returns at the first
\* attempt that succeeds and makes no attempt after it; every attempt after
\* the first is preceded by a navigation to the login page of its own; and it
\* raises 'Login failed' if and only if all 5 attempts failed.
C36_LoginAttempts ==
    /\ [](AttemptsMade <= max_retries)
    /\ [](task.outcome = "returned" =>
            /\ pc = "login_done"
            /\ AttemptsMade = Len(task.failures) + 1)
    /\ [][pc = "login_done" => task' = task]_vars
    /\ [](pc = "login_attempt" =>
            /\ task.attempt = Len(task.failures) + 1
            /\ task.navigations = task.attempt)
    /\ [](pc = "login_done" =>
            (task.outcome = "login_failed" <=> Len(task.failures) = max_retries))

\* The third attempt succeeded after two failed ones and two retries.
C36_Witness ==
    /\ pc = "login_done"
    /\ task.outcome = "returned"
    /\ task.failures = <<"redirect", "no_button">>
    /\ task.attempt = 3
    /\ task.navigations = 3

\* C37: run_playwright_task closes the page and the browser context exactly
\* once on every path, and always returns a record with a success flag: once
\* the browser context exists, the call ends with the page closed once, the
\* context closed once, and a returned record.
C37_ClosesOnceAndReturns ==
    (pc = "task_done" /\ task.browser # "none") =>
        /\ task.page_closes = 1
        /\ task.browser_closes = 1
        /\ task.outcome \in {"success", "failure"}

====
